---- MODULE Spec2Model ----
(***************************************************************************)
(* TagSense data-pipeline framework: entry stores over SQLite tables, the  *)
(* in-memory Manual store, the processes that read one store and write     *)
(* another, the registry with its persisted installed-process ledger, and  *)
(* the topological scheduler.                                              *)
(***************************************************************************)
EXTENDS Integers, Sequences, FiniteSets, TLC

\* ------------------------------------------------------------------------
\* Bounds
\* ------------------------------------------------------------------------
\* Number of distinct tokens the random key generator can produce.
MaxKeys == 2
\* Largest number of process descriptors handed to sort_processes.
MaxSortLen == 3
\* Number of ExecuteProcessWorker threads in flight at once.
MaxWorkers == 1
\* Number of times the Process button of one widget is pressed.
MaxClicks == 2

\* Number of rows deleted from the tables.
MaxDeletes == 1

\* Largest number of processes in a set sorted over the persisted stores.
MaxTieLen == 4

\* Largest number of presses of 'Install' in the install dialog.
MaxInstallClicks == 1

\* Number of presses of 'Process' when the widget is followed to the end of
\* its runs.
MaxRuns == 1

Keys == {"k" \o ToString(i) : i \in 1..MaxKeys}

\* ------------------------------------------------------------------------
\* Values as SQLite stores them: a storage class and a printed value.
\* Python None binds to NULL and NULL reads back as None.
\* ------------------------------------------------------------------------
Text(x) == [t |-> "text", v |-> x]
Integer(x) == [t |-> "int", v |-> x]
Null == [t |-> "null", v |-> ""]

\* Text values that look like integer literals.
NumericTexts == {"1", "2"}

\* Column affinity applied by INSERT to a bound value: a TEXT column stores
\* a number as its text, an INTEGER column stores a numeric text as a number.
ApplyAffinity(type, val) ==
    IF type = "TEXT" /\ val.t = "int" THEN Text(val.v)
    ELSE IF type = "INTEGER" /\ val.t = "text" /\ val.v \in NumericTexts THEN Integer(val.v)
    ELSE val

\* ------------------------------------------------------------------------
\* Stores and their tables
\* ------------------------------------------------------------------------
Files == "file_table"
RamGeneratedTags == "ram_generated_tags"
StoredRandomText == "stored_random_text_records"
ManualDataStructure == "Manual"

AppStores == {Files, RamGeneratedTags, StoredRandomText}

Col(ty, nn) == [type |-> ty, notnull |-> nn]

FileTable_create_table ==
    [rowid |-> Col("INTEGER", FALSE),
     entry_key |-> Col("TEXT", TRUE),
     process_uid |-> Col("TEXT", TRUE),
     input_structure_uid |-> Col("TEXT", FALSE),
     input_data_key |-> Col("TEXT", FALSE),
     md5_hash |-> Col("TEXT", TRUE),
     original_name |-> Col("TEXT", FALSE),
     file_path |-> Col("TEXT", FALSE),
     original_file_path |-> Col("TEXT", FALSE),
     file_size |-> Col("INTEGER", FALSE),
     file_extension |-> Col("TEXT", FALSE),
     date_created |-> Col("TEXT", FALSE),
     date_modified |-> Col("TEXT", FALSE),
     import_timestamp |-> Col("TEXT", FALSE)]

RamGeneratedTagsTable_create_table ==
    [rowid |-> Col("INTEGER", FALSE),
     entry_key |-> Col("TEXT", TRUE),
     process_uid |-> Col("TEXT", TRUE),
     input_structure_uid |-> Col("TEXT", FALSE),
     input_data_key |-> Col("TEXT", TRUE),
     tags |-> Col("TEXT", FALSE)]

StoredRandomTextTable_create_table ==
    [rowid |-> Col("INTEGER", FALSE),
     entry_key |-> Col("TEXT", TRUE),
     process_uid |-> Col("TEXT", TRUE),
     input_structure_uid |-> Col("TEXT", FALSE),
     input_data_key |-> Col("TEXT", TRUE),
     data |-> Col("TEXT", FALSE)]

\* The columns of the table behind store s.
create_table(s) ==
    CASE s = Files -> FileTable_create_table
      [] s = RamGeneratedTags -> RamGeneratedTagsTable_create_table
      [] s = StoredRandomText -> StoredRandomTextTable_create_table

ProvenanceColumns == {"entry_key", "process_uid", "input_structure_uid", "input_data_key"}

\* The declared required_columns of each table (each table lists all of
\* its columns).
required_columns(s) == DOMAIN create_table(s)

PayloadColumns(s) == required_columns(s) \ (ProvenanceColumns \cup {"rowid"})

\* ------------------------------------------------------------------------
\* State
\* ------------------------------------------------------------------------
VARIABLES
    store,      \* store[s]: the rows of the table behind store s
    rowseq,     \* rowseq[s]: the largest rowid the table has handed out
    columns,    \* columns[s]: the columns the table has in the database file
    manual,     \* DataStructure._storage: key -> data of the Manual store
    managed,    \* names of the copies in the managed files directory
    created,    \* created[s]: key and data of every create_entry that returned
    process_registry,           \* registry.process_registry
    detected_data_structures,   \* registry.detected_data_structures
    installed_processes,        \* process_uid column of the installed_processes table, in rowid order
    marked,     \* the processes mark_process_as_installed has returned for
    install_ran,                \* the processes whose install() has run to its end
    runner,     \* the file-import dialog and its RunProcessesWidget
    sorted,     \* the last sort_processes call: its argument and its result
    last        \* the last call: operation, arguments and outcome

storeVars == <<store, rowseq, columns, manual, managed, created>>
registryVars == <<process_registry, detected_data_structures, installed_processes,
                  marked, install_ran>>
vars == <<storeVars, registryVars, runner, sorted, last>>

\* outcome is "ok", "skip" or "fail" for the message returned, "raise" when
\* an exception left the call (err names it); ret is the entry key written,
\* "" for none; payload tells whether execute returned data or None; args
\* holds the input store's uid and the input key handed to create_entry, or
\* the set fetch_installed_processes returned.
NoCall == [op |-> "none", store |-> "", proc |-> "", key |-> "", outcome |-> "",
           err |-> "", ret |-> "", payload |-> "None", args |-> <<>>]

Call(op, s, p, k, outcome, err, ret) ==
    [op |-> op, store |-> s, proc |-> p, key |-> k, outcome |-> outcome,
     err |-> err, ret |-> ret, payload |-> IF outcome = "ok" THEN "data" ELSE "None",
     args |-> <<>>]

\* ------------------------------------------------------------------------
\* SQLITETable operations
\* ------------------------------------------------------------------------
InSeq(seq, x) == \E k \in 1..Len(seq) : seq[k] = x

\* fetchone(): the matching row with the smallest rowid, as a set of at most
\* one row.
FetchOne(rows) ==
    IF rows = {} THEN {}
    ELSE {CHOOSE r \in rows : \A q \in rows : r.rowid <= q.rowid}

\* INSERT INTO table (data keys) VALUES (data values); commit.
insert_record(rows, seq, s, data) ==
    LET cols == create_table(s)
        rid == seq + 1
        row == [c \in DOMAIN cols |->
                  IF c = "rowid" THEN rid
                  ELSE IF c \in DOMAIN data THEN ApplyAffinity(cols[c].type, data[c])
                  ELSE Null]
    IN  IF ~(DOMAIN data \subseteq DOMAIN cols)
        THEN [err |-> "OperationalError", rows |-> rows, seq |-> seq]
        ELSE IF \E c \in DOMAIN cols \ {"rowid"} : cols[c].notnull /\ row[c] = Null
        THEN [err |-> "IntegrityError: NOT NULL constraint failed", rows |-> rows, seq |-> seq]
        ELSE IF \E r \in rows : r.entry_key = row.entry_key
        THEN [err |-> "IntegrityError: UNIQUE constraint failed", rows |-> rows, seq |-> seq]
        ELSE [err |-> "", rows |-> rows \cup {row}, seq |-> rid]

\* ------------------------------------------------------------------------
\* AppDataStructure operations
\* ------------------------------------------------------------------------
\* SELECT * FROM table WHERE column = value, fetchone().
read(rows, s, column_name, value) ==
    IF column_name \notin DOMAIN create_table(s)
    THEN [err |-> "OperationalError", row |-> {}]
    ELSE [err |-> "",
          row |-> FetchOne({r \in rows :
                     /\ value # Null
                     /\ r[column_name] = ApplyAffinity(create_table(s)[column_name].type, value)})]

read_by_entry_key(rows, s, key) == read(rows, s, "entry_key", key).row

read_by_input_key_NoMatch(rows, s, key) == {}

read_by_input_key(rows, s, key) == read(rows, s, "input_data_key", key).row

\* The keys _generate_new_key can return: a sampled token is sampled again
\* while read_by_entry_key finds it.
_generate_new_key_NoResample(rows, s) == Keys

_generate_new_key(rows, s) ==
    {k \in Keys : read_by_entry_key(rows, s, Text(k)) = {}}

\* The stamping with the input store's uid left out.
Stamp_NoInputStructure(data, entry_key, process_uid, input_structure_uid, input_data_key) ==
    [c \in DOMAIN data \cup ProvenanceColumns |->
        CASE c = "entry_key" -> Text(entry_key)
          [] c = "process_uid" -> Text(process_uid)
          [] c = "input_structure_uid" -> Null
          [] c = "input_data_key" -> input_data_key
          [] OTHER -> data[c]]

\* data after the four provenance fields have been written into it.
Stamp(data, entry_key, process_uid, input_structure_uid, input_data_key) ==
    [c \in DOMAIN data \cup ProvenanceColumns |->
        CASE c = "entry_key" -> Text(entry_key)
          [] c = "process_uid" -> Text(process_uid)
          [] c = "input_structure_uid" -> input_structure_uid
          [] c = "input_data_key" -> input_data_key
          [] OTHER -> data[c]]

\* create_entry without the comparison of the data's keys with the
\* required columns.
create_entry_NoFieldCheck(rows, seq, s, entry_key, data, process_uid, input_structure_uid, input_data_key) ==
    LET stamped == Stamp(data, entry_key, process_uid, input_structure_uid, input_data_key)
        ins == insert_record(rows, seq, s, stamped)
    IN  [err |-> ins.err, rows |-> ins.rows, seq |-> ins.seq, data |-> stamped]

\* create_entry with the sampled key entry_key: the error raised ("" for
\* none), the table afterwards and the stamped data it returns.
create_entry(rows, seq, s, entry_key, data, process_uid, input_structure_uid, input_data_key) ==
    LET stamped == Stamp(data, entry_key, process_uid, input_structure_uid, input_data_key)
        missing_fields == (required_columns(s) \ {"rowid"}) \ DOMAIN stamped
        ins == insert_record(rows, seq, s, stamped)
    IN  IF missing_fields # {}
        THEN [err |-> "ValueError", rows |-> rows, seq |-> seq, data |-> stamped]
        ELSE [err |-> ins.err, rows |-> ins.rows, seq |-> ins.seq, data |-> stamped]

\* ------------------------------------------------------------------------
\* The Manual store (DataStructure._storage, in memory)
\* ------------------------------------------------------------------------
\* Python truth value of a stored data dict.
Truthy(data) == DOMAIN data # {}

\* DataStructure.read_by_entry_key: the data under key, as a set of at most
\* one element.
manual_read_by_entry_key(key) ==
    IF key \in DOMAIN manual THEN {manual[key]} ELSE {}

\* DataStructure._generate_new_key on the in-memory storage.
manual_generate_new_key ==
    {k \in Keys : \A d \in manual_read_by_entry_key(k) : ~Truthy(d)}

\* ------------------------------------------------------------------------
\* Files on disk that the user can select, and their content hashes
\* ------------------------------------------------------------------------
Paths == {"a.jpg", "b.jpg", "c.jpg"}

\* a.jpg and b.jpg hold the same bytes, c.jpg different ones.
FileBytes(path) == IF path = "c.jpg" THEN "bytes2" ELSE "bytes1"

\* _calculate_blake3: equal digests exactly for equal bytes.
_calculate_blake3(path) == IF FileBytes(path) = "bytes1" THEN "h1" ELSE "h2"

\* ------------------------------------------------------------------------
\* Processes
\* ------------------------------------------------------------------------
FileSystemIntegration == "file_system_integration"
RAMGenerateTags == "ram_generate_tags"
StoreRandomText == "StoreRandomText"

Processes == {FileSystemIntegration, RAMGenerateTags, StoreRandomText}

input(p) ==
    CASE p = FileSystemIntegration -> ManualDataStructure
      [] p = RAMGenerateTags -> Files
      [] p = StoreRandomText -> Files

output(p) ==
    CASE p = FileSystemIntegration -> Files
      [] p = RAMGenerateTags -> RamGeneratedTags
      [] p = StoreRandomText -> StoredRandomText

deterministic(p) == p # StoreRandomText

requires_installation(p) == p = RAMGenerateTags

\* ------------------------------------------------------------------------
\* Initial state: empty tables, empty Manual store, no managed copies.
\* ------------------------------------------------------------------------
\* Every store has been initialized (its table exists) and holds no entry.
InitStores ==
    /\ store = [s \in AppStores |-> {}]
    /\ rowseq = [s \in AppStores |-> 0]
    /\ columns = [s \in AppStores |-> required_columns(s)]
    /\ manual = <<>>
    /\ managed = {}
    /\ created = [s \in AppStores |-> {}]

InitRegistry ==
    /\ process_registry = {}
    /\ detected_data_structures = {}
    /\ installed_processes = <<>>
    /\ marked = {}
    /\ install_ran = {}

\* No dialog is open.
\* processes is the list the dialog offers, entry_keys its
\* data_structures_to_entry_keys, workers the ExecuteProcessWorker threads
\* in flight with the input keys each has still to execute.
NoDialog ==
    [open |-> FALSE, processes |-> <<>>, entry_keys |-> <<>>, workers |-> {},
     checked |-> {}, disabled |-> {}, process_items |-> <<>>, index |-> 0,
     current_process |-> 0, threads |-> <<>>, finished |-> <<>>, timers |-> 0,
     report |-> [process |-> "", line |-> "", msg |-> ""], clicks |-> 0,
     started |-> <<>>]

Init ==
    /\ InitStores
    /\ InitRegistry
    /\ runner = NoDialog
    /\ sorted = [processes |-> <<>>, result |-> <<>>]
    /\ last = NoCall

\* The effect of a create_entry result res on table s.
Commit(s, res, entry_key) ==
    /\ store' = [store EXCEPT ![s] = res.rows]
    /\ rowseq' = [rowseq EXCEPT ![s] = res.seq]
    /\ columns' = columns
    /\ created' = IF res.err = ""
                  THEN [created EXCEPT ![s] = @ \cup {[key |-> entry_key, data |-> res.data]}]
                  ELSE created

\* ------------------------------------------------------------------------
\* Store calls
\* ------------------------------------------------------------------------
\* AppDataStructure.create_entry(data, process, input_data_structure,
\* input_data_key) on store s.
CreateEntryCall(s, data, process_uid, input_structure_uid, input_data_key) ==
    \E entry_key \in _generate_new_key(store[s], s) :
        LET res == create_entry(store[s], rowseq[s], s, entry_key, data,
                                process_uid, input_structure_uid, input_data_key)
        IN  /\ Commit(s, res, entry_key)
            /\ last' = [Call("create_entry", s, process_uid, input_data_key.v,
                              IF res.err = "" THEN "ok" ELSE "raise", res.err,
                              IF res.err = "" THEN entry_key ELSE "")
                         EXCEPT !.args = <<input_structure_uid, input_data_key>>]
            /\ UNCHANGED <<manual, managed, registryVars, sorted>>

\* ManualDataStructure.create_entry({"file_path": path}).
ManualCreateEntry(path) ==
    \E key \in manual_generate_new_key :
        /\ manual' = [k \in DOMAIN manual \cup {key} |->
                        IF k = key THEN [file_path |-> path] ELSE manual[k]]
        /\ last' = Call("manual_create_entry", ManualDataStructure, "", "", "ok", "", key)
        /\ UNCHANGED <<store, rowseq, columns, managed, created, registryVars, sorted>>

\* A complete record for the Files table as its declared columns ask for it.
FilesData(path) ==
    [md5_hash |-> Text(_calculate_blake3(path)),
     original_name |-> Text(path),
     file_path |-> Text("files/" \o _calculate_blake3(path)),
     original_file_path |-> Text(path),
     file_size |-> Integer("1"),
     file_extension |-> Text(".jpg"),
     date_created |-> Text("t0"),
     date_modified |-> Text("t0"),
     import_timestamp |-> Text("t1")]

\* Files.create_entry with a complete record for the file at path, its input
\* supplied by hand (no input store, no input key).
CreateFileEntry(path) ==
    CreateEntryCall(Files, FilesData(path), FileSystemIntegration, Null, Null)

\* Files.create_entry with a complete record for the file behind the Manual
\* entry k.
CreateFileEntryFor(k) ==
    CreateEntryCall(Files, FilesData(manual[k].file_path), FileSystemIntegration,
                    Text(ManualDataStructure), Text(k))

\* ------------------------------------------------------------------------
\* Process.execute
\* ------------------------------------------------------------------------
TheRow(opt) == CHOOSE r \in opt : TRUE

\* RAMGenerateTags.execute(input_data_key); body is what generate_tags does:
\* it returns the tags or raises.
RAMGenerateTags_execute(input_data_key, body) ==
    LET P == RAMGenerateTags
        existing == read_by_input_key(store[output(P)], output(P), Text(input_data_key))
        file_record == read_by_entry_key(store[input(P)], input(P), Text(input_data_key))
        done(outcome, err, ret) == Call("execute", output(P), P, input_data_key, outcome, err, ret)
    IN  IF existing # {}
        THEN /\ last' = done("skip", "", "")
             /\ UNCHANGED <<storeVars, registryVars, sorted>>
        ELSE IF file_record = {}
        THEN /\ last' = done("fail", "", "")
             /\ UNCHANGED <<storeVars, registryVars, sorted>>
        ELSE IF TheRow(file_record).file_path = Null
        THEN /\ last' = done("raise", "TypeError", "")
             /\ UNCHANGED <<storeVars, registryVars, sorted>>
        ELSE IF body = "raise"
        THEN /\ last' = done("raise", "TransformationError", "")
             /\ UNCHANGED <<storeVars, registryVars, sorted>>
        ELSE \E entry_key \in _generate_new_key(store[output(P)], output(P)) :
                LET res == create_entry(store[output(P)], rowseq[output(P)], output(P),
                                        entry_key, [tags |-> Text("tags")], P,
                                        Text(input(P)), Text(input_data_key))
                IN  /\ Commit(output(P), res, entry_key)
                    /\ last' = IF res.err = "" THEN done("ok", "", entry_key)
                               ELSE done("raise", res.err, "")
                    /\ UNCHANGED <<manual, managed, registryVars, sorted>>

\* The record FileSystemIntegration.execute builds for a file.
FileSystemIntegration_data(path) ==
    [blake3_hash |-> Text(_calculate_blake3(path)),
     original_name |-> Text(path),
     file_path |-> Text("files/" \o _calculate_blake3(path)),
     original_file_path |-> Text(path),
     file_size |-> Integer("1"),
     file_extension |-> Text(".jpg"),
     date_created |-> Text("t0"),
     date_modified |-> Text("t0"),
     import_timestamp |-> Text("t1")]

\* FileSystemIntegration.execute(input_data_key).
FileSystemIntegration_execute(input_data_key) ==
    LET P == FileSystemIntegration
        input_data == manual_read_by_entry_key(input_data_key)
        file_path == TheRow(input_data).file_path
        blake3_hash == _calculate_blake3(file_path)
        existing == read(store[output(P)], output(P), "blake3_hash", Text(blake3_hash))
        done(outcome, err, ret) == Call("execute", output(P), P, input_data_key, outcome, err, ret)
    IN  IF input_data = {} \/ \A d \in input_data : ~Truthy(d)
        THEN /\ last' = done("fail", "", "")
             /\ UNCHANGED <<storeVars, registryVars, sorted>>
        ELSE IF existing.err # ""
        THEN /\ last' = done("raise", existing.err, "")
             /\ UNCHANGED <<storeVars, registryVars, sorted>>
        ELSE IF existing.row # {}
        THEN /\ last' = done("skip", "", "")
             /\ UNCHANGED <<storeVars, registryVars, sorted>>
        ELSE \E entry_key \in _generate_new_key(store[output(P)], output(P)) :
                LET res == create_entry(store[output(P)], rowseq[output(P)], output(P),
                                        entry_key, FileSystemIntegration_data(file_path), P,
                                        Text(input(P)), Text(input_data_key))
                IN  /\ managed' = managed \cup {blake3_hash \o ".jpg"}
                    /\ Commit(output(P), res, entry_key)
                    /\ last' = IF res.err = "" THEN done("ok", "", entry_key)
                               ELSE done("raise", res.err, "")
                    /\ UNCHANGED <<manual, registryVars, sorted>>

\* ------------------------------------------------------------------------
\* The tagging pipeline: file entries are written and tagged.
\* ------------------------------------------------------------------------
WriteFileEntry ==
    /\ \E path \in Paths : CreateFileEntry(path)
    /\ UNCHANGED runner

ExecuteRAMGenerateTags ==
    /\ \E k \in Keys, body \in {"ok", "raise"} : RAMGenerateTags_execute(k, body)
    /\ UNCHANGED runner

Next ==
    \/ WriteFileEntry
    \/ ExecuteRAMGenerateTags

Spec == Init /\ [][Next]_vars

\* ------------------------------------------------------------------------
\* Ingestion: files are chosen and handed to FileSystemIntegration.
\* ------------------------------------------------------------------------
ChooseFile ==
    /\ \E path \in Paths : ManualCreateEntry(path)
    /\ UNCHANGED runner

WriteChosenFileEntry ==
    /\ \E k \in DOMAIN manual : CreateFileEntryFor(k)
    /\ UNCHANGED runner

ExecuteFileSystemIntegration ==
    /\ \E k \in Keys : FileSystemIntegration_execute(k)
    /\ UNCHANGED runner

IngestNext ==
    \/ ChooseFile
    \/ WriteChosenFileEntry
    \/ ExecuteFileSystemIntegration

IngestSpec == Init /\ [][IngestNext]_vars

\* ------------------------------------------------------------------------
\* The stores on their own: create_entry with records of every shape.
\* ------------------------------------------------------------------------
\* The process that writes store s.
ProducerOf(s) ==
    CASE s = Files -> FileSystemIntegration
      [] s = RamGeneratedTags -> RAMGenerateTags
      [] s = StoredRandomText -> StoreRandomText

\* The payload column of the one-column stores.
PayloadColumn(s) == IF s = RamGeneratedTags THEN "tags" ELSE "data"

\* Values a caller can put under a payload column: a str, an int, None.
PayloadValues == {Text("a"), Integer("1"), Null}

\* Records handed to create_entry of store s: complete ones with values of
\* each Python type, one without the payload fields and one with a field
\* the table has no column for.
DataFor(s) ==
    IF s = Files
    THEN {FilesData(path) : path \in Paths}
         \cup {[FilesData("a.jpg") EXCEPT !.file_size = Text("1")]}
    ELSE {[c \in {PayloadColumn(s)} |-> v] : v \in PayloadValues}
         \cup {[c \in {} |-> Null]}
         \cup {[c \in {PayloadColumn(s), "extra"} |-> Text("a")]}

\* The input a record is attributed to: an entry of the input store, or none.
InputsFor(s) ==
    {[structure |-> Text(input(ProducerOf(s))), key |-> Text("k1")],
     [structure |-> Null, key |-> Null]}

\* The stores share no state (one table each), so a behaviour exercises one
\* of them.
OnlyStore(s) ==
    /\ manual = <<>>
    /\ \A t \in AppStores \ {s} : store[t] = {}

StoreCreateEntry ==
    \E s \in AppStores : \E data \in DataFor(s), in \in InputsFor(s) :
        /\ OnlyStore(s)
        /\ CreateEntryCall(s, data, ProducerOf(s), in.structure, in.key)
        /\ UNCHANGED runner

StoreManualCreateEntry ==
    /\ \A t \in AppStores : store[t] = {}
    /\ ChooseFile

StoreNext ==
    \/ StoreCreateEntry
    \/ StoreManualCreateEntry

StoreSpec == Init /\ [][StoreNext]_vars

\* ------------------------------------------------------------------------
\* util.sort_processes
\* ------------------------------------------------------------------------
\* processes_list is a sequence of process descriptors [input, output]; a
\* process is identified by its position in it (list(processes) of a set
\* comes in any order, so every order is a possible processes_list).
AllStores == AppStores \cup {ManualDataStructure}

IndexSeq(n) == [i \in 1..n |-> i]

\* p1 is not p2 and p1.output == p2.input.
Feeds(processes_list, p1, p2) ==
    p1 # p2 /\ processes_list[p1].output = processes_list[p2].input

adjacency(processes_list, p1) ==
    SelectSeq(IndexSeq(Len(processes_list)), LAMBDA p2 : Feeds(processes_list, p1, p2))

in_degree(processes_list) ==
    [p2 \in 1..Len(processes_list) |->
        Cardinality({p1 \in 1..Len(processes_list) : Feeds(processes_list, p1, p2)})]

\* for neighbor in adjacency[current]: the in-degree of each neighbor is
\* decremented and a neighbor that reaches 0 is appended to the queue.
RECURSIVE Relax(_, _, _)
Relax(neighbors, degree, queue) ==
    IF neighbors = <<>> THEN [degree |-> degree, queue |-> queue]
    ELSE LET neighbor == Head(neighbors)
             d == [degree EXCEPT ![neighbor] = @ - 1]
         IN  Relax(Tail(neighbors), d,
                   IF d[neighbor] = 0 THEN Append(queue, neighbor) ELSE queue)

\* while queue: popleft, append to result, relax the neighbors.
RECURSIVE Dequeue(_, _, _, _)
Dequeue(processes_list, queue, degree, result) ==
    IF queue = <<>> THEN result
    ELSE LET current == Head(queue)
             r == Relax(adjacency(processes_list, current), degree, Tail(queue))
         IN  Dequeue(processes_list, r.queue, r.degree, Append(result, current))

remaining_Dropped(processes_list, result) == <<>>

\* remaining = [p for p in processes_list if p not in result]
remaining(processes_list, result) ==
    SelectSeq(IndexSeq(Len(processes_list)), LAMBDA p : ~InSeq(result, p))

sort_processes_Unsorted(processes_list) == IndexSeq(Len(processes_list))

\* The positions of processes_list in the order sort_processes returns them.
sort_processes(processes_list) ==
    LET all == IndexSeq(Len(processes_list))
        degree == in_degree(processes_list)
        result == Dequeue(processes_list,
                          SelectSeq(all, LAMBDA p : degree[p] = 0), degree, <<>>)
    IN  result \o remaining(processes_list, result)

ProcessLists ==
    UNION {[1..n -> [input : AllStores, output : AllStores]] : n \in 0..MaxSortLen}

\* sort_processes is a pure function: the set it is given is drawn at the
\* start and the call applies the function to it.
SortInit ==
    /\ InitStores
    /\ InitRegistry
    /\ runner = NoDialog
    /\ sorted \in {[processes |-> processes_list, result |-> <<>>] :
                      processes_list \in ProcessLists}
    /\ last = NoCall

SortProcesses ==
    /\ sorted' = [sorted EXCEPT !.result = sort_processes(sorted.processes)]
    /\ last' = Call("sort_processes", "", "", "", "ok", "", "")
    /\ UNCHANGED <<storeVars, registryVars, runner>>

SortNext == SortProcesses

SortSpec == SortInit /\ [][SortNext]_vars

\* Sets of up to MaxTieLen processes that read and write persisted stores.
TieProcessLists ==
    UNION {[1..n -> [input : AppStores, output : AppStores]] : n \in 0..MaxTieLen}

TieInit ==
    /\ InitStores
    /\ InitRegistry
    /\ runner = NoDialog
    /\ sorted \in {[processes |-> processes_list, result |-> <<>>] :
                      processes_list \in TieProcessLists}
    /\ last = NoCall

TieSortSpec == TieInit /\ [][SortNext]_vars

\* ------------------------------------------------------------------------
\* registry
\* ------------------------------------------------------------------------
\* A process's uid is its name (Process.get_uid).
uid(p) == p

\* InstalledProcesses.insert_record: process_uid is UNIQUE NOT NULL.
InstalledProcesses_insert_record(ledger, process_uid) ==
    IF InSeq(ledger, process_uid)
    THEN [err |-> "IntegrityError: UNIQUE constraint failed", ledger |-> ledger]
    ELSE [err |-> "", ledger |-> Append(ledger, process_uid)]

is_process_installed(ledger, p) ==
    \E k \in 1..Len(ledger) : ledger[k] = uid(p)

mark_process_as_installed_NoCheck(ledger, p) ==
    InstalledProcesses_insert_record(ledger, uid(p))

mark_process_as_installed(ledger, p) ==
    IF \E k \in 1..Len(ledger) : ledger[k] = uid(p)
    THEN [err |-> "Exception: already installed", ledger |-> ledger]
    ELSE InstalledProcesses_insert_record(ledger, uid(p))

fetch_process_by_uid(registry, process_uid) ==
    {p \in registry : uid(p) = process_uid}

fetch_installed_processes_All(registry, ledger) == registry

fetch_installed_processes(registry, ledger) ==
    UNION {fetch_process_by_uid(registry, ledger[k]) : k \in 1..Len(ledger)}

\* register_processes that assigns the classes instead of uniting them.
RegisterProcesses_Replace ==
    \E classes \in SUBSET Processes \ {{}} :
        /\ process_registry' = classes
        /\ detected_data_structures' =
              {input(p) : p \in classes} \cup {output(p) : p \in classes}
        /\ last' = Call("register_processes", "", "", "", "ok", "", "")
        /\ UNCHANGED <<storeVars, installed_processes, marked, install_ran, runner, sorted>>

\* register_processes(classes).
RegisterProcesses ==
    \E classes \in SUBSET Processes \ {{}} :
        /\ process_registry' = process_registry \cup classes
        /\ detected_data_structures' =
              detected_data_structures \cup {input(p) : p \in classes}
                                       \cup {output(p) : p \in classes}
        /\ last' = Call("register_processes", "", "", "", "ok", "", "")
        /\ UNCHANGED <<storeVars, installed_processes, marked, install_ran, runner, sorted>>

\* mark_process_as_installed(process_cls).
MarkProcessAsInstalled ==
    \E p \in Processes :
        LET res == mark_process_as_installed(installed_processes, p)
        IN  /\ installed_processes' = res.ledger
            /\ marked' = IF res.err = "" THEN marked \cup {p} ELSE marked
            /\ last' = Call("mark_process_as_installed", "", p, "",
                            IF res.err = "" THEN "ok" ELSE "raise", res.err, "")
            /\ UNCHANGED <<storeVars, process_registry, detected_data_structures,
                           install_ran, runner, sorted>>

\* is_process_installed(process_cls); ret is the value returned.
IsProcessInstalled ==
    \E p \in Processes :
        /\ last' = Call("is_process_installed", "", p, "", "ok", "",
                        IF is_process_installed(installed_processes, p)
                        THEN "True" ELSE "False")
        /\ UNCHANGED <<storeVars, registryVars, runner, sorted>>

\* The uids looked up: those of the classes and one that no class carries.
UnknownUid == "unknown"

\* uid is assigned when a Process or AppDataStructure subclass is created;
\* DataStructure only declares it and assigns it in initialize(), which is
\* never called on ManualDataStructure.
has_uid(c) == c # ManualDataStructure

\* fetch_data_structure_by_uid(uid): the outcomes over the orders in which
\* the set detected can be iterated; reading the uid of a class without one
\* raises AttributeError, ret "" is None.
fetch_data_structure_by_uid(detected, data_structure_uid) ==
    LET found == {s \in detected : has_uid(s) /\ uid(s) = data_structure_uid}
    IN  {[err |-> "", ret |-> s] : s \in found}
        \cup (IF \E s \in detected : ~has_uid(s)
              THEN {[err |-> "AttributeError", ret |-> ""]}
              ELSE IF found = {} THEN {[err |-> "", ret |-> ""]} ELSE {})

\* fetch_process_by_uid(uid); ret "" is None.
FetchProcessByUid ==
    \E process_uid \in {uid(p) : p \in Processes} \cup {UnknownUid} :
        LET found == fetch_process_by_uid(process_registry, process_uid)
        IN  /\ last' = Call("fetch_process_by_uid", "", "", process_uid, "ok", "",
                            IF found = {} THEN "" ELSE TheRow(found))
            /\ UNCHANGED <<storeVars, registryVars, runner, sorted>>

\* fetch_data_structure_by_uid(uid).
FetchDataStructureByUid ==
    \E data_structure_uid \in {uid(s) : s \in AppStores \cup {ManualDataStructure}}
                                \cup {UnknownUid} :
        \E res \in fetch_data_structure_by_uid(detected_data_structures, data_structure_uid) :
            /\ last' = Call("fetch_data_structure_by_uid", "", "", data_structure_uid,
                            IF res.err = "" THEN "ok" ELSE "raise", res.err, res.ret)
            /\ UNCHANGED <<storeVars, registryVars, runner, sorted>>

\* fetch_installed_processes().
FetchInstalledProcesses ==
    /\ last' = [Call("fetch_installed_processes", "", "", "", "ok", "", "")
                EXCEPT !.args = <<fetch_installed_processes(process_registry,
                                                            installed_processes)>>]
    /\ UNCHANGED <<storeVars, registryVars, runner, sorted>>

Restart_ForgetsLedger ==
    /\ process_registry' = {}
    /\ detected_data_structures' = {}
    /\ installed_processes' = <<>>
    /\ manual' = <<>>
    /\ runner' = NoDialog
    /\ last' = Call("restart", "", "", "", "ok", "", "")
    /\ UNCHANGED <<store, rowseq, columns, managed, created, marked, install_ran, sorted>>

\* The application exits and starts again: what lives in memory (the
\* registries, the Manual store, the dialog) starts empty, what lives in
\* the database file (the tables, the ledger) and on disk is as it was.
Restart ==
    /\ process_registry' = {}
    /\ detected_data_structures' = {}
    /\ manual' = <<>>
    /\ runner' = NoDialog
    /\ last' = Call("restart", "", "", "", "ok", "", "")
    /\ UNCHANGED <<store, rowseq, columns, managed, created, installed_processes,
                   marked, install_ran, sorted>>

RegistryNext ==
    \/ RegisterProcesses
    \/ MarkProcessAsInstalled
    \/ IsProcessInstalled
    \/ FetchProcessByUid
    \/ FetchDataStructureByUid
    \/ FetchInstalledProcesses
    \/ Restart

RegistrySpec == Init /\ [][RegistryNext]_vars

\* ------------------------------------------------------------------------
\* Installation and the file-import dialog
\* ------------------------------------------------------------------------
\* StoreRandomText.execute with the already-processed check of the
\* non-repeatable processes.
StoreRandomText_execute_SkipExisting(input_data_key) ==
    LET P == StoreRandomText
        done(outcome, err, ret) == Call("execute", output(P), P, input_data_key, outcome, err, ret)
    IN  IF read_by_input_key(store[output(P)], output(P), Text(input_data_key)) # {}
        THEN /\ last' = done("skip", "", "")
             /\ UNCHANGED <<storeVars, registryVars, sorted>>
        ELSE \E entry_key \in _generate_new_key(store[output(P)], output(P)) :
                LET res == create_entry(store[output(P)], rowseq[output(P)], output(P),
                                        entry_key, [data |-> Text("a")], P,
                                        Text(input(P)), Text(input_data_key))
                IN  /\ Commit(output(P), res, entry_key)
                    /\ last' = IF res.err = "" THEN done("ok", "", entry_key)
                               ELSE done("raise", res.err, "")
                    /\ UNCHANGED <<manual, managed, registryVars, sorted>>

\* StoreRandomText.execute(input_data_key): writes an entry every time.
StoreRandomText_execute(input_data_key) ==
    LET P == StoreRandomText
        done(outcome, err, ret) == Call("execute", output(P), P, input_data_key, outcome, err, ret)
    IN  \E entry_key \in _generate_new_key(store[output(P)], output(P)) :
            LET res == create_entry(store[output(P)], rowseq[output(P)], output(P),
                                    entry_key, [data |-> Text("a")], P,
                                    Text(input(P)), Text(input_data_key))
            IN  /\ Commit(output(P), res, entry_key)
                /\ last' = IF res.err = "" THEN done("ok", "", entry_key)
                           ELSE done("raise", res.err, "")
                /\ UNCHANGED <<manual, managed, registryVars, sorted>>

\* process.execute(input_data_key=key).
execute(p, key) ==
    CASE p = FileSystemIntegration -> FileSystemIntegration_execute(key)
      [] p = RAMGenerateTags ->
            \E body \in {"ok", "raise"} : RAMGenerateTags_execute(key, body)
      [] p = StoreRandomText -> StoreRandomText_execute(key)

\* What the installation steps of a process can do before it is marked:
\* RAMGenerateTags needs poetry, downloads the weights and runs two install
\* commands; the other processes have no steps of their own.
InstallOutcomes(p) ==
    IF p = RAMGenerateTags
    THEN {"ok", "commands_failed", "no_poetry", "download_failed"}
    ELSE {"ok"}

\* CREATE TABLE IF NOT EXISTS with the declared columns: a table that is
\* there (cols is not empty) stays as it is.
create_table_if_not_exists(cols, s) ==
    IF cols = {} THEN required_columns(s) ELSE cols

\* SQLITETable.verify_table: PRAGMA table_info against required_columns.
verify_table(cols, s) == required_columns(s) \subseteq cols

\* AppDataStructure.initialize: create_table, then verify_table, whose
\* result is not looked at.
initialize(cols, s) == create_table_if_not_exists(cols, s)

\* process.install(): the steps of the process, then AppProcess.install
\* (mark_process_as_installed, output.initialize). A missing poetry and a
\* failed download raise before the process is marked; a failed install
\* command is caught and the process is marked all the same.
install(p, steps) ==
    LET raised == IF steps = "no_poetry" THEN "FileNotFoundError"
                  ELSE IF steps = "download_failed" THEN "RequestException"
                  ELSE ""
        res == mark_process_as_installed(installed_processes, p)
        err == IF raised # "" THEN raised ELSE res.err
    IN  /\ installed_processes' = IF raised # "" THEN installed_processes ELSE res.ledger
        /\ marked' = IF err = "" THEN marked \cup {p} ELSE marked
        /\ install_ran' = IF err = "" THEN install_ran \cup {p} ELSE install_ran
        /\ columns' = IF err = ""
                      THEN [columns EXCEPT ![output(p)] = initialize(@, output(p))]
                      ELSE columns
        /\ last' = Call("install", "", p, steps,
                        IF err = "" THEN "ok" ELSE "raise", err, "")
        /\ UNCHANGED <<store, rowseq, manual, managed, created, process_registry,
                       detected_data_structures, sorted>>

\* install() is called on a process.
Install ==
    /\ \E p \in Processes : \E steps \in InstallOutcomes(p) : install(p, steps)
    /\ UNCHANGED runner

\* list(processes) of a set: its elements in any order.
Orders(S) ==
    {order \in [1..Cardinality(S) -> S] :
        \A j, k \in 1..Cardinality(S) : order[j] = order[k] => j = k}

\* FileImport.__init__: the installed processes, sorted, with
\* file_system_integration moved to the front.
OpenFileImport ==
    /\ ~runner.open
    /\ LET fetched == fetch_installed_processes(process_registry, installed_processes)
       IN  \E order \in Orders(fetched) :
            LET processes_list == [k \in 1..Len(order) |->
                                     [input |-> input(order[k]), output |-> output(order[k])]]
                positions == sort_processes(processes_list)
                processes == [k \in 1..Len(positions) |-> order[positions[k]]]
            IN  IF FileSystemIntegration \notin fetched
                THEN /\ last' = Call("FileImport", "", "", "", "raise",
                                     "Exception: File System Integration process is required", "")
                     /\ UNCHANGED runner
                ELSE /\ runner' = [NoDialog EXCEPT
                                     !.open = TRUE,
                                     !.processes = <<FileSystemIntegration>> \o
                                        SelectSeq(processes, LAMBDA q : q # FileSystemIntegration)]
                     /\ last' = Call("FileImport", "", "", "", "ok", "", "")
    /\ UNCHANGED <<storeVars, registryVars, sorted>>

\* data_structures_to_entry_keys with key appended to the list of store s.
AppendKey(entry_keys, s, key) ==
    [t \in DOMAIN entry_keys \cup {s} |->
        IF t = s
        THEN (IF s \in DOMAIN entry_keys THEN Append(entry_keys[s], key) ELSE <<key>>)
        ELSE entry_keys[t]]

\* FileImport.set_file_path(file): a Manual entry for the file, its key
\* added to the input keys of the run.
SetFilePath ==
    /\ runner.open
    /\ \E path \in Paths : ManualCreateEntry(path)
    /\ runner' = [runner EXCEPT
                    !.entry_keys = AppendKey(@, ManualDataStructure, last'.ret)]

\* The dialog is closed.
CloseFileImport ==
    /\ runner.open
    /\ runner' = NoDialog
    /\ last' = Call("close", "", "", "", "ok", "", "")
    /\ UNCHANGED <<storeVars, registryVars, sorted>>

\* RunProcessesWidget.run_process for a process of the dialog's list: a
\* worker is started with the input keys of the process's input store, or
\* the process is reported as failed for want of input data.
RunProcess ==
    /\ runner.open
    /\ \E k \in 1..Len(runner.processes) :
        LET process == runner.processes[k]
        IN  IF input(process) \notin DOMAIN runner.entry_keys
            THEN /\ last' = Call("run_process", "", process, "", "fail", "", "")
                 /\ UNCHANGED runner
            ELSE /\ Cardinality(runner.workers) < MaxWorkers
                 /\ runner' = [runner EXCEPT !.workers = @ \cup
                                 {[process |-> process,
                                   input_keys |-> runner.entry_keys[input(process)]]}]
                 /\ last' = Call("run_process", "", process, "", "ok", "", "")
    /\ UNCHANGED <<storeVars, registryVars, sorted>>

\* ExecuteProcessWorker.run, one input key at a time: an exception ends
\* the worker without finished being emitted; after the last key finished
\* is emitted and handle_process_completion records the key of the entry
\* written under the output store.
WorkerExecute ==
    \E w \in runner.workers :
        /\ w.input_keys # <<>>
        /\ execute(w.process, Head(w.input_keys))
        /\ runner' =
              IF last'.outcome = "raise"
              THEN [runner EXCEPT !.workers = @ \ {w}]
              ELSE IF Tail(w.input_keys) # <<>>
              THEN [runner EXCEPT !.workers = (@ \ {w}) \cup
                                     {[w EXCEPT !.input_keys = Tail(@)]}]
              ELSE [runner EXCEPT
                      !.workers = @ \ {w},
                      !.entry_keys = IF last'.payload = "data"
                                     THEN AppendKey(@, output(w.process), last'.ret)
                                     ELSE @]

AppNext ==
    \/ RegisterProcesses
    \/ Install
    \/ Restart
    \/ OpenFileImport
    \/ SetFilePath
    \/ CloseFileImport
    \/ RunProcess
    \/ WorkerExecute

AppSpec == Init /\ [][AppNext]_vars

\* ------------------------------------------------------------------------
\* RunProcessesWidget: the run over the checked processes
\* ------------------------------------------------------------------------
\* A widget as its constructor leaves it: nothing checked, no run started.
\* checked and disabled are the checkboxes (positions in processes) that are
\* checked and disabled; process_items, index and current_process are the
\* fields of those names (current_process 0 for None); threads are the
\* worker threads started and not yet done, in the order they were started,
\* each with the input keys it has still to execute; finished are the
\* finished signals emitted and not yet handled; timers is the number of
\* pending singleShot(_process_next) callbacks; report is the last line
\* written to the output pane; clicks counts the presses of 'Process';
\* started lists the positions _process_next has taken up since the last
\* press.
NoReport == [process |-> "", line |-> "", msg |-> ""]

NewWidget(processes, entry_keys) ==
    [open |-> TRUE, processes |-> processes, entry_keys |-> entry_keys,
     workers |-> {}, checked |-> {}, disabled |-> {}, process_items |-> <<>>,
     index |-> 0, current_process |-> 0, threads |-> <<>>, finished |-> <<>>,
     timers |-> 0, report |-> NoReport, clicks |-> 0, started |-> <<>>]

\* handle_process_completion(process, msg, data): a payload is recorded as
\* a success and its entry key handed to the later processes; anything
\* else is recorded as a failure.
handle_process_completion(r, process, msg, payload, entry_key) ==
    IF payload = "data"
    THEN [r EXCEPT !.entry_keys = AppendKey(@, output(process), entry_key),
                   !.report = [process |-> process, line |-> "Successful", msg |-> msg]]
    ELSE [r EXCEPT !.report = [process |-> process, line |-> "Process failed", msg |-> msg]]

\* handle_finished(msg, data).
handle_finished(r, msg, payload, entry_key) ==
    IF r.current_process = 0 THEN r
    ELSE LET process_idx == r.current_process
             process == r.processes[process_idx]
             done == handle_process_completion(r, process, msg, payload, entry_key)
             success == payload = "data"
         IN  [done EXCEPT
                !.checked = IF deterministic(process) /\ success
                            THEN @ \ {process_idx} ELSE @,
                !.disabled = IF deterministic(process) /\ success
                             THEN @ \cup {process_idx} ELSE @,
                !.index = @ + 1,
                !.timers = @ + 1]

\* _process_next() with a run_process that hands every process to a worker,
\* with no input keys when none are known for its input store.
_process_next_NoInputCheck(r) ==
    IF r.index >= Len(r.process_items)
    THEN [r EXCEPT !.current_process = 0]
    ELSE LET process_idx == r.process_items[r.index + 1]
             process == r.processes[process_idx]
             current == [r EXCEPT !.current_process = process_idx,
                                  !.started = Append(@, process_idx)]
         IN  [current EXCEPT !.threads = Append(@,
                  [process |-> process,
                   input_keys |-> IF input(process) \in DOMAIN r.entry_keys
                                  THEN r.entry_keys[input(process)] ELSE <<>>,
                   final_msg |-> "None", final_data |-> "None", final_key |-> ""])]

\* _process_next(), run_process and run_worker: the next item of the run
\* becomes the current process and gets a worker thread, or is reported as
\* failed when no input keys are known for its input store.
_process_next(r) ==
    IF r.index >= Len(r.process_items)
    THEN [r EXCEPT !.current_process = 0]
    ELSE LET process_idx == r.process_items[r.index + 1]
             process == r.processes[process_idx]
             current == [r EXCEPT !.current_process = process_idx,
                                  !.started = Append(@, process_idx)]
         IN  IF input(process) \notin DOMAIN r.entry_keys
             THEN handle_finished(current, "missing", "None", "")
             ELSE [current EXCEPT !.threads = Append(@,
                      [process |-> process,
                       input_keys |-> r.entry_keys[input(process)],
                       final_msg |-> "None", final_data |-> "None", final_key |-> ""])]

\* The checked positions in list order.
CheckedItems(r) ==
    SelectSeq(IndexSeq(Len(r.processes)), LAMBDA k : k \in r.checked)

RemoveAt(seq, k) == SubSeq(seq, 1, k - 1) \o SubSeq(seq, k + 1, Len(seq))

\* What finished.emit(final_msg, final_data) can do: finished is declared
\* pyqtSignal(str, dict); with a dict payload the signal is delivered, with
\* None in place of the str or the dict the binding either delivers it or
\* raises TypeError inside run(), where it is swallowed.
EmitOutcomes(final_msg, final_data) ==
    IF final_msg # "None" /\ final_data = "data"
    THEN {"delivered"} ELSE {"delivered", "TypeError"}

\* A checkbox that is not disabled is clicked.
ToggleCheckbox ==
    /\ runner.open
    /\ \E k \in 1..Len(runner.processes) :
        /\ k \notin runner.disabled
        /\ runner' = [runner EXCEPT !.checked =
                         IF k \in @ THEN @ \ {k} ELSE @ \cup {k}]
    /\ UNCHANGED <<storeVars, registryVars, sorted, last>>

\* run_selected_processes: 'Process' is pressed and confirmed.
RunSelectedProcesses ==
    /\ runner.open
    /\ runner.clicks < MaxClicks
    /\ IF runner.checked = {}
       THEN runner' = [runner EXCEPT !.clicks = @ + 1]
       ELSE runner' = _process_next([runner EXCEPT
                                       !.clicks = @ + 1,
                                       !.process_items = CheckedItems(runner),
                                       !.index = 0,
                                       !.started = <<>>])
    /\ UNCHANGED <<storeVars, registryVars, sorted, last>>

\* A QTimer.singleShot(300, self._process_next) fires.
TimerProcessNext ==
    /\ runner.timers > 0
    /\ runner' = _process_next([runner EXCEPT !.timers = @ - 1])
    /\ UNCHANGED <<storeVars, registryVars, sorted, last>>

\* ExecuteProcessWorker.run of a started thread, one input key at a time.
\* An exception from execute ends run() without finished being emitted;
\* after the last key, finished is emitted with the message and payload of
\* the last execute.
ThreadExecute ==
    \E t \in 1..Len(runner.threads) :
        LET w == runner.threads[t]
        IN  IF w.input_keys = <<>>
            THEN /\ runner' = [runner EXCEPT !.threads = RemoveAt(@, t)]
                 /\ last' = Call("run", "", w.process, "", "raise", "TypeError", "")
                 /\ UNCHANGED <<storeVars, registryVars, sorted>>
            ELSE /\ execute(w.process, Head(w.input_keys))
                 /\ IF last'.outcome = "raise"
                    THEN runner' = [runner EXCEPT !.threads = RemoveAt(@, t)]
                    ELSE IF Tail(w.input_keys) # <<>>
                    THEN runner' = [runner EXCEPT !.threads[t] =
                                      [w EXCEPT !.input_keys = Tail(@),
                                                !.final_msg = last'.outcome,
                                                !.final_data = last'.payload,
                                                !.final_key = last'.ret]]
                    ELSE \E emit \in EmitOutcomes(last'.outcome, last'.payload) :
                            runner' = [runner EXCEPT
                                !.threads = RemoveAt(@, t),
                                !.finished =
                                    IF emit = "delivered"
                                    THEN Append(@, [process |-> w.process,
                                                    msg |-> last'.outcome,
                                                    payload |-> last'.payload,
                                                    key |-> last'.ret])
                                    ELSE @]

\* The finished signal of a worker reaches handle_finished.
HandleFinishedSignal ==
    /\ runner.finished # <<>>
    /\ LET signal == Head(runner.finished)
       IN  runner' = handle_finished([runner EXCEPT !.finished = Tail(@)],
                                     signal.msg, signal.payload, signal.key)
    /\ UNCHANGED <<storeVars, registryVars, sorted, last>>

\* The widget is constructed over a list of two processes with the input
\* keys of one store; the Files store holds the entry k1, and the tags of
\* k1 exist or not.
WidgetProcesses ==
    {<<FileSystemIntegration, RAMGenerateTags>>, <<RAMGenerateTags, StoreRandomText>>}

WidgetEntryKeys ==
    {<<>>} \cup {[s \in {t} |-> keys] :
                    t \in {ManualDataStructure, Files},
                    keys \in {<<"k1">>, <<"k1", "k2">>}}

FilesWithK1 ==
    create_entry({}, 0, Files, "k1", FilesData("a.jpg"),
                 FileSystemIntegration, Null, Null)

TagsOfK1 ==
    create_entry({}, 0, RamGeneratedTags, "k1", [tags |-> Text("tags")],
                 RAMGenerateTags, Text(Files), Text("k1"))

RunnerInit ==
    /\ \E tagged \in BOOLEAN :
        /\ store = [s \in AppStores |->
                      IF s = Files THEN FilesWithK1.rows
                      ELSE IF s = RamGeneratedTags /\ tagged THEN TagsOfK1.rows
                      ELSE {}]
        /\ rowseq = [s \in AppStores |->
                       IF s = Files THEN FilesWithK1.seq
                       ELSE IF s = RamGeneratedTags /\ tagged THEN TagsOfK1.seq
                       ELSE 0]
        /\ columns = [s \in AppStores |-> required_columns(s)]
        /\ created = [s \in AppStores |->
                        IF s = Files THEN {[key |-> "k1", data |-> FilesWithK1.data]}
                        ELSE IF s = RamGeneratedTags /\ tagged
                        THEN {[key |-> "k1", data |-> TagsOfK1.data]}
                        ELSE {}]
    /\ \E processes \in WidgetProcesses, entry_keys \in WidgetEntryKeys :
        /\ runner = NewWidget(processes, entry_keys)
        /\ manual = IF ManualDataStructure \in DOMAIN entry_keys
                    THEN [k \in {entry_keys[ManualDataStructure][j] :
                                   j \in 1..Len(entry_keys[ManualDataStructure])} |->
                            [file_path |-> "a.jpg"]]
                    ELSE <<>>
    /\ managed = {}
    /\ process_registry = Processes
    /\ detected_data_structures = AllStores
    /\ installed_processes = <<FileSystemIntegration, RAMGenerateTags, StoreRandomText>>
    /\ marked = Processes
    /\ install_ran = Processes
    /\ sorted = [processes |-> <<>>, result |-> <<>>]
    /\ last = NoCall

RunnerNext ==
    \/ ToggleCheckbox
    \/ RunSelectedProcesses
    \/ TimerProcessNext
    \/ ThreadExecute
    \/ HandleFinishedSignal

RunnerSpec == RunnerInit /\ [][RunnerNext]_vars

\* ------------------------------------------------------------------------
\* Entries are written, derived from and deleted across restarts.
\* ------------------------------------------------------------------------
\* DELETE FROM table WHERE rowid = row_id; commit.
delete_record(rows, row_id) == {r \in rows : r.rowid # row_id}

\* The number of rows table s has lost: the rowids it has handed out less
\* the rows it holds.
deleted(s) == rowseq[s] - Cardinality(store[s])

\* AppDataStructure.delete(row_id) on store s.
Delete ==
    /\ deleted(Files) + deleted(RamGeneratedTags) + deleted(StoredRandomText) < MaxDeletes
    /\ \E s \in AppStores : \E row_id \in 1..rowseq[s] :
        /\ store' = [store EXCEPT ![s] = delete_record(@, row_id)]
        /\ last' = Call("delete", s, "", "", "ok", "", "")
    /\ UNCHANGED <<rowseq, columns, manual, managed, created, registryVars, runner, sorted>>

\* A file entry is written for the file a.jpg.
WriteOneFileEntry ==
    /\ CreateFileEntry("a.jpg")
    /\ UNCHANGED runner

\* StoreRandomText is executed for the key of a file entry.
ExecuteStoreRandomText ==
    /\ \E r \in store[Files] : StoreRandomText_execute(r.entry_key.v)
    /\ UNCHANGED runner

\* A crash that leaves the row of the interrupted INSERT with its payload
\* column unwritten.
CrashInExecute_TornWrite ==
    /\ \E r \in store[Files] : \E point \in {"before_commit", "after_commit"} :
        LET P == StoreRandomText
            input_data_key == r.entry_key.v
            crashed(ret) == Call("crash", output(P), P, input_data_key, "raise", point, ret)
        IN  IF point = "before_commit"
            THEN /\ last' = crashed("")
                 /\ UNCHANGED <<store, rowseq, columns, created>>
            ELSE \E entry_key \in _generate_new_key(store[output(P)], output(P)) :
                    LET res == create_entry(store[output(P)], rowseq[output(P)], output(P),
                                            entry_key, [data |-> Text("a")], P,
                                            Text(input(P)), Text(input_data_key))
                    IN  /\ res.err = ""
                        /\ Commit(output(P), [res EXCEPT !.rows =
                            {IF q.entry_key = Text(entry_key) THEN [q EXCEPT !.data = Null] ELSE q
                                : q \in @}], entry_key)
                        /\ last' = crashed(entry_key)
    /\ process_registry' = {}
    /\ detected_data_structures' = {}
    /\ manual' = <<>>
    /\ runner' = NoDialog
    /\ UNCHANGED <<managed, installed_processes, marked, install_ran, sorted>>

\* The application dies inside StoreRandomText.execute and starts again.
\* insert_record is one INSERT followed by commit: a crash before the commit
\* returns leaves the table as it was (sqlite rolls the statement back), a
\* crash after it leaves the whole row; what lives in memory is lost.
CrashInExecute ==
    /\ \E r \in store[Files] : \E point \in {"before_commit", "after_commit"} :
        LET P == StoreRandomText
            input_data_key == r.entry_key.v
            crashed(ret) == Call("crash", output(P), P, input_data_key, "raise", point, ret)
        IN  IF point = "before_commit"
            THEN /\ last' = crashed("")
                 /\ UNCHANGED <<store, rowseq, columns, created>>
            ELSE \E entry_key \in _generate_new_key(store[output(P)], output(P)) :
                    LET res == create_entry(store[output(P)], rowseq[output(P)], output(P),
                                            entry_key, [data |-> Text("a")], P,
                                            Text(input(P)), Text(input_data_key))
                    IN  /\ res.err = ""
                        /\ Commit(output(P), res, entry_key)
                        /\ last' = crashed(entry_key)
    /\ process_registry' = {}
    /\ detected_data_structures' = {}
    /\ manual' = <<>>
    /\ runner' = NoDialog
    /\ UNCHANGED <<managed, installed_processes, marked, install_ran, sorted>>

ProvenanceNext ==
    \/ WriteOneFileEntry
    \/ ExecuteStoreRandomText
    \/ Delete
    \/ Restart

ProvenanceSpec == Init /\ [][ProvenanceNext]_vars

\* Entries are written and derived while the application may die inside an
\* execute.
CrashNext ==
    \/ WriteOneFileEntry
    \/ ExecuteStoreRandomText
    \/ CrashInExecute
    \/ Restart

CrashSpec == Init /\ [][CrashNext]_vars

\* ------------------------------------------------------------------------
\* Startup on a database file, installation, and the first writes
\* ------------------------------------------------------------------------
\* The columns of file_table as main() creates it (models.FileTable): the
\* declared columns of the Files store without the provenance columns.
LegacyFileTable_columns == required_columns(Files) \ ProvenanceColumns

\* The database file the application starts on: each table is absent ({}),
\* or has the declared columns, or (file_table) those of an earlier start.
SchemaInit ==
    /\ store = [s \in AppStores |-> {}]
    /\ rowseq = [s \in AppStores |-> 0]
    /\ columns \in [AppStores -> {{}} \cup {required_columns(s) : s \in AppStores}
                                      \cup {LegacyFileTable_columns}]
    /\ \A s \in AppStores :
          columns[s] \in {{}, required_columns(s)}
                         \cup (IF s = Files THEN {LegacyFileTable_columns} ELSE {})
    /\ manual = <<>>
    /\ managed = {}
    /\ created = [s \in AppStores |-> {}]
    /\ InitRegistry
    /\ runner = NoDialog
    /\ sorted = [processes |-> <<>>, result |-> <<>>]
    /\ last = NoCall

\* main(): the core tables are created if absent and models.FileTable is
\* verified against its own required columns; on failure sys.exit(1).
MainCoreTables ==
    /\ last = NoCall
    /\ LET cols == IF columns[Files] = {} THEN LegacyFileTable_columns ELSE columns[Files]
       IN  /\ columns' = [columns EXCEPT ![Files] = cols]
           /\ last' = IF LegacyFileTable_columns \subseteq cols
                      THEN Call("main", Files, "", "", "ok", "", "")
                      ELSE Call("main", Files, "", "", "raise", "SystemExit", "")
    /\ UNCHANGED <<store, rowseq, manual, managed, created, registryVars, runner, sorted>>

\* The application has started: main() has run and has not exited.
Started == last # NoCall /\ last.err # "SystemExit"

InstallAfterStart ==
    /\ Started
    /\ Install

\* A complete record for store s.
CompleteData(s) ==
    IF s = Files THEN FilesData("a.jpg") ELSE [c \in {PayloadColumn(s)} |-> Text("a")]

\* create_entry of store s by its installed process, on the table as it is
\* in the database file: the INSERT names every key of the stamped record.
SchemaCreateEntry ==
    /\ Started
    /\ \E s \in AppStores :
        /\ ProducerOf(s) \in install_ran
        /\ IF (DOMAIN CompleteData(s) \cup ProvenanceColumns) \subseteq columns[s]
           THEN CreateEntryCall(s, CompleteData(s), ProducerOf(s), Null, Null)
           ELSE /\ last' = Call("create_entry", s, ProducerOf(s), "", "raise",
                                "OperationalError", "")
                /\ UNCHANGED <<storeVars, registryVars, sorted>>
    /\ UNCHANGED runner

SchemaNext ==
    \/ MainCoreTables
    \/ InstallAfterStart
    \/ SchemaCreateEntry

SchemaSpec == SchemaInit /\ [][SchemaNext]_vars

\* ------------------------------------------------------------------------
\* A file entry is written and the processes that read it are executed,
\* any number of times for the same key.
\* ------------------------------------------------------------------------
RepeatNext ==
    \/ WriteOneFileEntry
    \/ ExecuteRAMGenerateTags
    \/ ExecuteStoreRandomText

RepeatSpec == Init /\ [][RepeatNext]_vars

\* ------------------------------------------------------------------------
\* InstallProcessesWidget: the run that installs the checked processes
\* ------------------------------------------------------------------------
\* _process_next() with InstallProcessesWidget.run_process: the next item
\* gets an InstallProcessWorker thread.
InstallProcessesWidget_process_next(r) ==
    IF r.index >= Len(r.process_items)
    THEN [r EXCEPT !.current_process = 0]
    ELSE LET process_idx == r.process_items[r.index + 1]
         IN  [r EXCEPT !.current_process = process_idx,
                       !.started = Append(@, process_idx),
                       !.threads = Append(@,
                          [process |-> r.processes[process_idx], input_keys |-> <<>>,
                           final_msg |-> "None", final_data |-> "None", final_key |-> ""])]

\* handle_finished(msg, data) with
\* InstallProcessesWidget.handle_process_completion, which returns True.
InstallProcessesWidget_handle_finished(r, msg) ==
    IF r.current_process = 0 THEN r
    ELSE LET process_idx == r.current_process
             process == r.processes[process_idx]
         IN  [r EXCEPT
                !.checked = IF deterministic(process) THEN @ \ {process_idx} ELSE @,
                !.disabled = IF deterministic(process) THEN @ \cup {process_idx} ELSE @,
                !.index = @ + 1,
                !.timers = @ + 1]

\* The finished signals of InstallProcessWorker.run: "Installed" after an
\* install() that returned, and "Failed" from the finally clause whether
\* install() returned or raised.
InstallProcessWorker_signals(process, outcome) ==
    (IF outcome = "ok"
     THEN <<[process |-> process, msg |-> "Installed", payload |-> "None", key |-> ""]>>
     ELSE <<>>)
    \o <<[process |-> process, msg |-> "Failed", payload |-> "None", key |-> ""]>>

\* 'Install' is pressed and confirmed.
InstallRunSelectedProcesses ==
    /\ runner.open
    /\ runner.clicks < MaxInstallClicks
    /\ IF runner.checked = {}
       THEN runner' = [runner EXCEPT !.clicks = @ + 1]
       ELSE runner' = InstallProcessesWidget_process_next(
                         [runner EXCEPT !.clicks = @ + 1,
                                        !.process_items = CheckedItems(runner),
                                        !.index = 0,
                                        !.started = <<>>])
    /\ UNCHANGED <<storeVars, registryVars, sorted, last>>

InstallTimerProcessNext ==
    /\ runner.timers > 0
    /\ runner' = InstallProcessesWidget_process_next([runner EXCEPT !.timers = @ - 1])
    /\ UNCHANGED <<storeVars, registryVars, sorted, last>>

\* InstallProcessWorker.run of a started thread.
ThreadInstall ==
    \E t \in 1..Len(runner.threads) :
        LET w == runner.threads[t]
        IN  \E steps \in InstallOutcomes(w.process) :
              /\ install(w.process, steps)
              /\ runner' = [runner EXCEPT
                              !.threads = RemoveAt(@, t),
                              !.finished = @ \o InstallProcessWorker_signals(
                                                   w.process, last'.outcome)]

InstallHandleFinishedSignal ==
    /\ runner.finished # <<>>
    /\ runner' = InstallProcessesWidget_handle_finished(
                    [runner EXCEPT !.finished = Tail(@)], Head(runner.finished).msg)
    /\ UNCHANGED <<storeVars, registryVars, sorted, last>>

\* The widget is constructed over the registered processes in one of two
\* orders; none of them is installed yet.
InstallWidgetProcesses ==
    {<<FileSystemIntegration, RAMGenerateTags, StoreRandomText>>,
     <<RAMGenerateTags, StoreRandomText, FileSystemIntegration>>}

InstallRunInit ==
    /\ InitStores
    /\ process_registry = Processes
    /\ detected_data_structures = AllStores
    /\ installed_processes = <<>>
    /\ marked = {}
    /\ install_ran = {}
    /\ \E processes \in InstallWidgetProcesses : runner = NewWidget(processes, <<>>)
    /\ sorted = [processes |-> <<>>, result |-> <<>>]
    /\ last = NoCall

InstallRunNext ==
    \/ ToggleCheckbox
    \/ InstallRunSelectedProcesses
    \/ InstallTimerProcessNext
    \/ ThreadInstall
    \/ InstallHandleFinishedSignal

InstallRunSpec == InstallRunInit /\ [][InstallRunNext]_vars

\* The rows a table holds when the widget is constructed.
InitialRows(s) ==
    IF s = Files THEN FilesWithK1.rows
    ELSE IF s = RamGeneratedTags THEN TagsOfK1.rows
    ELSE {}

\* ------------------------------------------------------------------------
\* A store written to by a process other than the one that declares it as
\* its output
\* ------------------------------------------------------------------------
\* RamGeneratedTags.create_entry(data, process=StoreRandomText,
\* input_data_structure=Files, input_data_key=the key of a file entry).
CreateEntryByOtherProcess ==
    /\ \E r \in store[Files] :
          CreateEntryCall(RamGeneratedTags, [tags |-> Text("a")], StoreRandomText,
                          Text(uid(Files)), r.entry_key)
    /\ UNCHANGED runner

SharedStoreNext ==
    \/ WriteFileEntry
    \/ CreateEntryByOtherProcess
    \/ ExecuteRAMGenerateTags

SharedStoreSpec == Init /\ [][SharedStoreNext]_vars

\* ------------------------------------------------------------------------
\* main(): the register-and-install phase
\* ------------------------------------------------------------------------
\* What the import system finds for a name in a directory: a directory
\* with an __init__.py is a package; without one it is passed over when a
\* module file of that name is there, and is a namespace package otherwise.
find_spec(dir_has_init, module_file) ==
    IF dir_has_init THEN "package"
    ELSE IF module_file THEN "module"
    ELSE "namespace package"

\* tagsense/processes holds both preprocessing.py and the directory
\* preprocessing/; the directory has no __init__.py in the sources at hand,
\* and an installation may carry an empty one.
preprocessing_spec == {find_spec(dir_has_init, TRUE) : dir_has_init \in BOOLEAN}

\* The BaseProcess classes main() imports; they declare data_structures,
\* can_repeat and requires_installation, and no input, output or uid.
LegacyProcesses == {"ExtractFileMetadataProcess", "FilePreprocessing"}

\* The ledgers earlier runs can have left in the database file.
PersistedLedgers == UNION {Orders(S) : S \in SUBSET Processes}

StartupInit ==
    /\ store = [s \in AppStores |-> {}]
    /\ rowseq = [s \in AppStores |-> 0]
    /\ columns \in [AppStores -> {{}} \cup {required_columns(s) : s \in AppStores}
                                      \cup {LegacyFileTable_columns}]
    /\ \A s \in AppStores :
          columns[s] \in {{}, required_columns(s)}
                         \cup (IF s = Files THEN {LegacyFileTable_columns} ELSE {})
    /\ manual = <<>>
    /\ managed = {}
    /\ created = [s \in AppStores |-> {}]
    /\ process_registry = {}
    /\ detected_data_structures = {}
    /\ installed_processes \in PersistedLedgers
    /\ marked = {p \in Processes : InSeq(installed_processes, p)}
    /\ install_ran = marked
    /\ runner = NoDialog
    /\ sorted = [processes |-> <<>>, result |-> <<>>]
    /\ last = NoCall

\* main() after the core tables: the import of
\* tagsense.processes.preprocessing.extract_file_metadata.extract_file_metadata
\* raises when tagsense.processes.preprocessing is not a package; otherwise
\* register_processes adds the two imported classes to process_registry
\* and raises on reading the input attribute of the first of them, before
\* any mark_process_as_installed.
MainRegisterAndInstall ==
    /\ last.op = "main" /\ last.store = Files /\ last.outcome = "ok"
    /\ \E found \in preprocessing_spec :
          IF found # "package"
          THEN /\ process_registry' = process_registry
               /\ last' = Call("main", "", "", "register_and_install", "raise",
                               "ModuleNotFoundError", "")
          ELSE /\ process_registry' = process_registry \cup LegacyProcesses
               /\ last' = Call("main", "", "", "register_and_install", "raise",
                               "AttributeError", "")
    /\ UNCHANGED <<storeVars, detected_data_structures, installed_processes, marked,
                   install_ran, runner, sorted>>

\* The interpreter exits after main() has raised or called sys.exit: what
\* lives in memory is gone.
ProcessExit ==
    /\ last.op = "main" /\ last.outcome = "raise"
    /\ process_registry' = {}
    /\ detected_data_structures' = {}
    /\ last' = NoCall
    /\ UNCHANGED <<storeVars, installed_processes, marked, install_ran, runner, sorted>>

StartupNext ==
    \/ MainCoreTables
    \/ MainRegisterAndInstall
    \/ ProcessExit

StartupSpec == StartupInit /\ [][StartupNext]_vars

\* ------------------------------------------------------------------------
\* The widget followed to the end of its runs
\* ------------------------------------------------------------------------
\* run_selected_processes, pressed at most MaxRuns times.
RunSelectedProcessesToEnd ==
    /\ runner.clicks < MaxRuns
    /\ RunSelectedProcesses

RunToEndNext ==
    \/ ToggleCheckbox
    \/ RunSelectedProcessesToEnd
    \/ TimerProcessNext
    \/ ThreadExecute
    \/ HandleFinishedSignal

\* A started worker thread runs, a queued finished signal is delivered and
\* a due timer fires.
RunToEndFairSpec ==
    /\ RunnerInit
    /\ [][RunToEndNext]_vars
    /\ WF_vars(ThreadExecute)
    /\ WF_vars(HandleFinishedSignal)
    /\ WF_vars(TimerProcessNext)

\* ------------------------------------------------------------------------
\* util.sort_processes: the queue loop, one iteration at a time
\* ------------------------------------------------------------------------
\* sorted holds the locals of one call: processes_list, in_degree, queue and
\* result, and enqueued, every process ever appended to the queue, in order.
InitialQueue(processes_list) ==
    SelectSeq(IndexSeq(Len(processes_list)),
              LAMBDA p : in_degree(processes_list)[p] = 0)

QueueLoopInit ==
    /\ InitStores
    /\ InitRegistry
    /\ runner = NoDialog
    /\ sorted \in {[processes |-> processes_list,
                    in_degree |-> in_degree(processes_list),
                    queue |-> InitialQueue(processes_list),
                    enqueued |-> InitialQueue(processes_list),
                    result |-> <<>>,
                    returned |-> FALSE] : processes_list \in ProcessLists}
    /\ last = NoCall

QueueLoopIteration_EnqueuesEveryNeighbor ==
    /\ ~sorted.returned
    /\ sorted.queue # <<>>
    /\ LET current == Head(sorted.queue)
           neighbors == adjacency(sorted.processes, current)
       IN  sorted' = [sorted EXCEPT !.queue = Tail(sorted.queue) \o neighbors,
                                    !.enqueued = @ \o neighbors,
                                    !.result = Append(@, current)]
    /\ UNCHANGED <<storeVars, registryVars, runner, last>>

\* One pass of `while queue:`.
QueueLoopIteration ==
    /\ ~sorted.returned
    /\ sorted.queue # <<>>
    /\ LET current == Head(sorted.queue)
           r == Relax(adjacency(sorted.processes, current), sorted.in_degree,
                      Tail(sorted.queue))
       IN  sorted' = [sorted EXCEPT !.in_degree = r.degree,
                                    !.queue = r.queue,
                                    !.enqueued = @ \o SubSeq(r.queue, Len(sorted.queue),
                                                             Len(r.queue)),
                                    !.result = Append(@, current)]
    /\ UNCHANGED <<storeVars, registryVars, runner, last>>

\* The queue is empty: remaining is appended and the list is returned.
QueueLoopReturn ==
    /\ ~sorted.returned
    /\ sorted.queue = <<>>
    /\ sorted' = [sorted EXCEPT !.result = @ \o remaining(sorted.processes, @),
                                !.returned = TRUE]
    /\ last' = Call("sort_processes", "", "", "", "ok", "", "")
    /\ UNCHANGED <<storeVars, registryVars, runner>>

QueueLoopNext ==
    \/ QueueLoopIteration
    \/ QueueLoopReturn

\* A call that has started keeps running: the function has no blocking step.
QueueLoopFairSpec ==
    QueueLoopInit /\ [][QueueLoopNext]_vars /\ WF_vars(QueueLoopNext)

\* ------------------------------------------------------------------------
\* FileImport.__init__ over any set of installed processes
\* ------------------------------------------------------------------------
FileImport_processes_NotMoved(processes_list, fsi) == sort_processes(processes_list)

\* self.processes after __init__: the sorted list with the process named
\* file_system_integration (position fsi of processes_list) removed and
\* inserted at index 0.
FileImport_processes(processes_list, fsi) ==
    <<fsi>> \o SelectSeq(sort_processes(processes_list), LAMBDA p : p # fsi)

\* The positions of processes_list that can be file_system_integration:
\* it reads Manual and writes Files.
NamedFileSystemIntegration(processes_list) ==
    {p \in 1..Len(processes_list) :
        processes_list[p] = [input |-> input(FileSystemIntegration),
                             output |-> output(FileSystemIntegration)]}

\* The installed processes are drawn at the start; fsi is 0 when none of
\* them is file_system_integration.
ImportListInit ==
    /\ InitStores
    /\ InitRegistry
    /\ runner = NoDialog
    /\ sorted \in {[processes |-> processes_list, fsi |-> fsi, result |-> <<>>] :
                      processes_list \in ProcessLists,
                      fsi \in 0..MaxSortLen}
    /\ IF NamedFileSystemIntegration(sorted.processes) = {}
       THEN sorted.fsi = 0
       ELSE sorted.fsi \in NamedFileSystemIntegration(sorted.processes)
    /\ last = NoCall

BuildImportList ==
    /\ last = NoCall
    /\ IF sorted.fsi = 0
       THEN /\ last' = Call("FileImport", "", "", "", "raise",
                            "Exception: File System Integration process is required", "")
            /\ UNCHANGED sorted
       ELSE /\ sorted' = [sorted EXCEPT
                            !.result = FileImport_processes(sorted.processes, sorted.fsi)]
            /\ last' = Call("FileImport", "", "", "", "ok", "", "")
    /\ UNCHANGED <<storeVars, registryVars, runner>>

ImportListNext == BuildImportList

ImportListSpec == ImportListInit /\ [][ImportListNext]_vars

\* ------------------------------------------------------------------------
\* searches.Search over the Files store
\* ------------------------------------------------------------------------
\* SQLITETable.fetch_all: SELECT * FROM table, the rows in rowid order.
fetch_all(rows) ==
    [i \in 1..Cardinality(rows) |->
        CHOOSE r \in rows : Cardinality({q \in rows : q.rowid < r.rowid}) = i - 1]

\* Search.generate_tags_for_entry: [str(entry_idx + 1)], entry_idx counted
\* from 0.
generate_tags_for_entry(results, entry_idx) == {ToString(entry_idx + 1)}

\* The dict built by the first loop of generate_entry_filters_by_tags: a key
\* met again replaces its tags.
entry_keys_to_tags(results) ==
    [entry_key \in {results[i].entry_key : i \in 1..Len(results)} |->
        LET i == CHOOSE i \in 1..Len(results) :
                    /\ results[i].entry_key = entry_key
                    /\ \A j \in (i + 1)..Len(results) : results[j].entry_key # entry_key
        IN  generate_tags_for_entry(results, i - 1)]

\* Search.generate_entry_filters_by_tags; a tag list that is None or empty
\* is the empty set.
generate_entry_filters_by_tags(results, tag_whitelist, tag_blacklist) ==
    LET tags == entry_keys_to_tags(results)
        entry_keys == SelectSeq([i \in 1..Len(results) |-> results[i].entry_key],
                                LAMBDA k : \E i \in 1..Len(results) :
                                    /\ results[i].entry_key = k
                                    /\ \A j \in 1..(i - 1) : results[j].entry_key # k)
    IN  [entry_whitelist |->
            SelectSeq(entry_keys, LAMBDA k : tag_whitelist # {} /\ tag_whitelist \subseteq tags[k]),
         entry_blacklist |->
            SelectSeq(entry_keys, LAMBDA k : tag_blacklist # {} /\ tag_blacklist \cap tags[k] # {})]

\* Search.filter_results: an empty list is falsy and filters nothing.
filter_results(results, entry_whitelist, entry_blacklist) ==
    SelectSeq(results, LAMBDA result :
        /\ ~(entry_blacklist # <<>> /\ InSeq(entry_blacklist, result.entry_key))
        /\ ~(entry_whitelist # <<>> /\ ~InSeq(entry_whitelist, result.entry_key)))

\* Search.fetch_results
fetch_results(rows, entry_whitelist, entry_blacklist) ==
    filter_results(fetch_all(rows), entry_whitelist, entry_blacklist)

\* The tags a search is asked for: those of the first entries.
SearchTags == {"1", "2", "3"}

\* The entry filters are generated for a tag whitelist and blacklist and
\* the results are fetched with them.
FetchResultsByTags ==
    /\ \E tag_whitelist, tag_blacklist \in SUBSET SearchTags :
          LET filters == generate_entry_filters_by_tags(fetch_all(store[Files]),
                                                        tag_whitelist, tag_blacklist)
          IN  last' = [Call("fetch_results", Files, "", "", "ok", "",
                            fetch_results(store[Files], filters.entry_whitelist,
                                          filters.entry_blacklist))
                         EXCEPT !.args = <<tag_whitelist, tag_blacklist>>]
    /\ UNCHANGED <<storeVars, registryVars, runner, sorted>>

SearchNext ==
    \/ WriteFileEntry
    \/ FetchResultsByTags

SearchSpec == Init /\ [][SearchNext]_vars

\* ========================================================================
\* Properties
\* ========================================================================

\* The rows of store s written for input key k.
EntriesFor(s, k) == {r \in store[s] : r.input_data_key = Text(k)}

\* C1: when the output store of RAMGenerateTags already holds an entry with
\* input_data_key K, execute(K) returns a skip message with a None payload
\* and leaves every table as it was: no entry is created and the entry
\* count is the same before and after the call.
C1_SkipLeavesStoreUnchanged ==
    [][\A k \in Keys :
          (/\ EntriesFor(RamGeneratedTags, k) # {}
           /\ last'.op = "execute" /\ last'.proc = RAMGenerateTags /\ last'.key = k)
          => (/\ last'.outcome = "skip"
              /\ last'.payload = "None"
              /\ last'.ret = ""
              /\ store' = store
              /\ Cardinality(store'[RamGeneratedTags]) = Cardinality(store[RamGeneratedTags]))]_vars

\* A repeated execute for an input key that already has its tags was skipped.
C1_Witness ==
    /\ last.op = "execute" /\ last.proc = RAMGenerateTags /\ last.outcome = "skip"
    /\ EntriesFor(RamGeneratedTags, last.key) # {}

\* C2: whatever sequence of execute calls has run, the output store of
\* RAMGenerateTags holds at most one entry for each input_data_key.
C2_OneEntryPerInputKey ==
    \A r1, r2 \in store[RamGeneratedTags] :
        r1.input_data_key = r2.input_data_key => r1 = r2

\* Two input keys have been tagged and one of them was executed again.
C2_Witness ==
    /\ Cardinality(store[RamGeneratedTags]) >= 2
    /\ last.op = "execute" /\ last.proc = RAMGenerateTags /\ last.outcome = "skip"

\* The Files rows recorded for the bytes of the file at path.
FileEntriesOf(path) ==
    {r \in store[Files] : r.md5_hash = Text(_calculate_blake3(path))}

\* C3: after FileSystemIntegration.execute has run on a chosen file, the
\* Files store holds exactly one entry and managed storage exactly one copy
\* for that file's bytes.
C3_IngestedOncePerContent ==
    (last.op = "execute" /\ last.proc = FileSystemIntegration /\ last.key \in DOMAIN manual)
    => LET path == manual[last.key].file_path
       IN  /\ Cardinality(FileEntriesOf(path)) = 1
           /\ (_calculate_blake3(path) \o ".jpg") \in managed

\* C10: an exception inside execute does not leave execute: the call
\* returns a failure message with a None payload and writes no entry.
C10_ExceptionBecomesFailureMessage ==
    (last.op = "execute" /\ last.err # "")
    => (last.outcome = "fail" /\ last.payload = "None" /\ last.ret = "")

\* C4: read_by_entry_key(E) returns, for every entry create_entry has
\* returned key E for, each field of the record as it was handed in
\* (payload and provenance), whatever was created afterwards.
C4_RoundTrip ==
    \A s \in AppStores : \A e \in created[s] :
        LET got == read_by_entry_key(store[s], s, Text(e.key))
        IN  /\ got # {}
            /\ \A c \in DOMAIN e.data : TheRow(got)[c] = e.data[c]

\* The entry keys store s holds.
EntryKeys(s) ==
    IF s = ManualDataStructure THEN DOMAIN manual
    ELSE {r.entry_key.v : r \in store[s]}

\* C5: the rows of a store have pairwise distinct entry keys, and every
\* create_entry that returns a key returns one the store did not hold and
\* adds exactly that key; no insert fails on the UNIQUE constraint, because
\* a sampled key the store already holds is sampled again.
C5_EntryKeysDistinct ==
    [][/\ \A s \in AppStores : \A r1, r2 \in store'[s] :
             r1.entry_key = r2.entry_key => r1 = r2
       /\ last'.err # "IntegrityError: UNIQUE constraint failed"
       /\ \A s \in AppStores \cup {ManualDataStructure} :
             (/\ last'.op \in {"create_entry", "manual_create_entry"}
              /\ last'.store = s /\ last'.ret # "")
             => (/\ last'.ret \notin EntryKeys(s)
                 /\ EntryKeys(s)' = EntryKeys(s) \cup {last'.ret})]_vars

\* A store holds MaxKeys entries: every key create_entry could sample for
\* the last of them but one was already taken.
C5_Witness ==
    /\ last.op \in {"create_entry", "manual_create_entry"} /\ last.ret # ""
    /\ Cardinality(EntryKeys(last.store)) = MaxKeys

\* The position of process p in the list result.
PositionOf(result, p) == CHOOSE k \in 1..Len(result) : result[k] = p

\* The processes reached from those in S along at most n producer/consumer
\* pairs.
RECURSIVE Downstream(_, _, _)
Downstream(processes_list, S, n) ==
    IF n = 0 THEN S
    ELSE Downstream(processes_list,
                    S \cup {p2 \in 1..Len(processes_list) :
                               \E p1 \in S : Feeds(processes_list, p1, p2)},
                    n - 1)

\* No process is, through a chain of producer/consumer pairs, its own
\* consumer.
Acyclic(processes_list) ==
    \A p \in 1..Len(processes_list) :
        p \notin Downstream(processes_list,
                            {p2 \in 1..Len(processes_list) : Feeds(processes_list, p, p2)},
                            Len(processes_list))

ProducersFirst(processes_list, result) ==
    \A p1, p2 \in 1..Len(processes_list) :
        Feeds(processes_list, p1, p2)
        => PositionOf(result, p1) < PositionOf(result, p2)

\* C6 as stated: in the list sort_processes returns, P1 comes before P2 for
\* every pair of processes with P1.output == P2.input, whatever the set.
C6_ProducersFirstAlways ==
    last.op = "sort_processes" => ProducersFirst(sorted.processes, sorted.result)

\* C6: for every set of processes whose producer/consumer relation has no
\* cycle, sort_processes returns a list in which P1 comes before P2 for
\* every pair with P1.output == P2.input; so {B, A} with A's output store
\* the input store of B comes back as [A, B].
C6_ProducersFirstWhenAcyclic ==
    (last.op = "sort_processes" /\ Acyclic(sorted.processes))
    => ProducersFirst(sorted.processes, sorted.result)

\* A consumer was given before its producer, in a set without a cycle, and
\* sort_processes has ordered it.
C6_Witness ==
    /\ last.op = "sort_processes"
    /\ Acyclic(sorted.processes)
    /\ \E p1, p2 \in 1..Len(sorted.processes) :
          Feeds(sorted.processes, p1, p2) /\ p2 < p1

\* C7: is_process_installed(P) returns False until mark_process_as_installed(P)
\* has returned once and True from then on; a mark_process_as_installed(P)
\* after that raises the already-installed error and leaves the ledger as
\* it was.
C7_InstallOnce ==
    [][\A p \in Processes :
          /\ (last'.op = "is_process_installed" /\ last'.proc = p)
             => (last'.ret = "True" <=> p \in marked)
          /\ (last'.op = "mark_process_as_installed" /\ last'.proc = p /\ p \in marked)
             => (/\ last'.outcome = "raise"
                 /\ last'.err = "Exception: already installed"
                 /\ installed_processes' = installed_processes)
          /\ (last'.op = "mark_process_as_installed" /\ last'.proc = p /\ p \notin marked)
             => (last'.outcome = "ok" /\ p \in marked')]_vars

\* A second mark_process_as_installed for a process raised.
C7_Witness ==
    /\ last.op = "mark_process_as_installed" /\ last.outcome = "raise"
    /\ last.proc \in marked
    /\ is_process_installed(installed_processes, last.proc)

\* C8: every step keeps the rows the ledger had, in place, and leaves it
\* without a UID that occurs twice: a recorded UID stays recorded, also
\* over a restart.
C8_LedgerAppendOnly ==
    [][/\ Len(installed_processes') >= Len(installed_processes)
       /\ \A k \in 1..Len(installed_processes) :
             installed_processes'[k] = installed_processes[k]
       /\ \A j, k \in 1..Len(installed_processes') :
             installed_processes'[j] = installed_processes'[k] => j = k]_vars

\* The application has restarted with processes recorded in the ledger.
C8_Witness ==
    /\ last.op = "restart"
    /\ Len(installed_processes) >= 2

RunnerFairSpec ==
    /\ RunnerSpec
    /\ WF_vars(ThreadExecute)
    /\ WF_vars(HandleFinishedSignal)
    /\ WF_vars(TimerProcessNext)

\* The execute of the current process p raised, its worker thread has ended,
\* and a selected process after p has not been started yet.
RaisedStep(p) ==
    /\ runner.current_process # 0
    /\ runner.processes[runner.current_process] = p
    /\ runner.index + 1 < Len(runner.process_items)
    /\ runner.threads = <<>>
    /\ last.op = "execute" /\ last.proc = p /\ last.outcome = "raise"

\* C11: when a step of a run over several selected processes fails, the run
\* is not aborted: the selected process after the failed one is eventually
\* started (it becomes the current process of the run).
C11_RunContinuesAfterFailure ==
    \A p \in Processes :
        RaisedStep(p) ~> (/\ runner.current_process # 0
                          /\ runner.processes[runner.current_process] # p)


\* C12: the runner reports a skipped step distinctly from a failed step:
\* the line written for a step whose execute returned the skip message is
\* never the line written for a failure.
C12_SkipNotReportedAsFailure ==
    ~(runner.report.msg = "skip" /\ runner.report.line = "Process failed")

\* C13: at most one process worker is in flight at any time, under any
\* interleaving of 'Process' clicks, worker completions and timer callbacks.
C13_OneWorkerInFlight ==
    Len(runner.threads) <= 1


\* The required fields of store s, other than the ones create_entry writes
\* itself, that data has no key for.
missing_fields(s, data) ==
    (required_columns(s) \ ({"rowid"} \cup ProvenanceColumns)) \ DOMAIN data

\* C14: a create_entry whose data lacks a required field fails with the
\* missing-fields error (ValueError in the code) and persists nothing: the
\* entries of every store are the same before and after the call.
C14_MissingFieldPersistsNothing ==
    [][\A s \in AppStores : \A data \in DataFor(s), in \in InputsFor(s) :
          (/\ missing_fields(s, data) # {}
           /\ CreateEntryCall(s, data, ProducerOf(s), in.structure, in.key))
          => (/\ last'.outcome = "raise" /\ last'.err = "ValueError"
              /\ store' = store /\ created' = created)]_vars

\* A create_entry failed on missing fields in a store that holds an entry.
C14_Witness ==
    /\ last.op = "create_entry" /\ last.err = "ValueError"
    /\ store[last.store] # {}


\* The entry that row r names as its input exists, when r names one.
resolves(r) ==
    \/ r.input_structure_uid = Null
    \/ r.input_data_key = Null
    \/ LET t == r.input_structure_uid.v
       IN  IF t = ManualDataStructure
           THEN r.input_data_key.v \in DOMAIN manual
           ELSE t \in AppStores /\ \E q \in store[t] : q.entry_key = r.input_data_key

\* C15: in every reachable state, after any sequence of create_entry, delete
\* and restarts, each entry whose (input_structure_uid, input_data_key) pair
\* is non-null refers to an entry that exists in the store it names.
C15_ProvenanceResolves ==
    \A s \in AppStores : \A r \in store[s] : resolves(r)


\* Row r of store s is the whole record of one create_entry: it has an
\* entry key and a process UID, and every required field of the record
\* handed to that create_entry, as stored.
whole_entry(s, r) ==
    /\ r.entry_key # Null /\ r.process_uid # Null
    /\ \E e \in created[s] :
        /\ Text(e.key) = r.entry_key
        /\ required_columns(s) \ {"rowid"} \subseteq DOMAIN e.data
        /\ \A c \in DOMAIN e.data : r[c] = ApplyAffinity(create_table(s)[c].type, e.data[c])

C17_NoCallOnNonConformingSchema ==
    last.op = "create_entry" => verify_table(columns[last.store], last.store)


\* C18: the Manual store is never a member of the set of known stores the
\* registry exposes, also after a root process whose input is the Manual
\* store has been registered.
C18_ManualNeverKnown ==
    ManualDataStructure \notin detected_data_structures

C20_KnownStoresOfInstalled ==
    detected_data_structures =
        UNION {{input(p), output(p)} :
                  p \in {q \in Processes : is_process_installed(installed_processes, q)}}


\* C21 as stated: execute performs the already-processed check (skip when
\* the output store holds an entry for the input key) exactly when the
\* deterministic flag of the process is false, and a process whose flag is
\* true creates an entry on every call.
C21_CheckWhenNotDeterministic ==
    [][last'.op = "execute" =>
          LET p == last'.proc
              k == last'.key
          IN  /\ (~deterministic(p) /\ EntriesFor(output(p), k) # {})
                    => last'.outcome = "skip"
              /\ deterministic(p) => last'.outcome # "skip"]_vars

\* C21, amended: the check is performed exactly when the deterministic flag
\* is true: such a process skips, leaving every table as it was, when its
\* output store holds an entry for the input key; a process whose flag is
\* false creates one more entry on every call.
C21_CheckWhenDeterministic ==
    [][last'.op = "execute" =>
          LET p == last'.proc
              k == last'.key
          IN  /\ (deterministic(p) /\ EntriesFor(output(p), k) # {})
                    => (last'.outcome = "skip" /\ store' = store)
              /\ ~deterministic(p)
                    => (/\ last'.outcome = "ok"
                        /\ Cardinality({r \in store'[output(p)] : r.input_data_key = Text(k)})
                              = Cardinality(EntriesFor(output(p), k)) + 1)]_vars

\* StoreRandomText has written a second entry for a key whose tags
\* RAMGenerateTags has generated once.
C21_Witness ==
    /\ last.op = "execute" /\ last.proc = StoreRandomText
    /\ Cardinality(EntriesFor(StoredRandomText, last.key)) >= 2
    /\ EntriesFor(RamGeneratedTags, last.key) # {}


\* C26: every execute(K) of the repeatable process StoreRandomText creates
\* exactly one new output entry with input_data_key K and an entry key the
\* store did not hold, so n calls with the same K leave n entries for K.
C26_RepeatableAddsOneEntry ==
    [][(last'.op = "execute" /\ last'.proc = StoreRandomText) =>
          /\ last'.outcome = "ok"
          /\ last'.ret \notin EntryKeys(StoredRandomText)
          /\ \E r \in store'[StoredRandomText] :
                /\ r \notin store[StoredRandomText]
                /\ r.entry_key = Text(last'.ret)
                /\ r.input_data_key = Text(last'.key)
                /\ store'[StoredRandomText] = store[StoredRandomText] \cup {r}]_vars

\* MaxKeys calls of StoreRandomText.execute with the same key have left
\* MaxKeys entries for it.
C26_Witness ==
    /\ last.op = "execute" /\ last.proc = StoreRandomText
    /\ Cardinality(EntriesFor(StoredRandomText, last.key)) = MaxKeys
    /\ Cardinality(EntryKeys(StoredRandomText)) = MaxKeys


\* C22: a process UID enters the installed ledger only when the install step
\* of the process ran to completion without failing: an install whose steps
\* failed leaves the ledger as it was.
C22_LedgerOnlyAfterCompletedInstall ==
    [][(last'.op = "install" /\ last'.key # "ok") =>
          installed_processes' = installed_processes]_vars


\* The processes Kahn's algorithm never dequeues: the largest set of
\* processes each of which has a producer in the set.
NotDequeued(processes_list) ==
    UNION {S \in SUBSET (1..Len(processes_list)) :
              \A p2 \in S : \E p1 \in S : Feeds(processes_list, p1, p2)}

\* C23: when the producer/consumer relation among the given processes has a
\* cycle, sort_processes returns every process once: first the processes
\* Kahn's algorithm dequeues, each producer among them before its consumers,
\* then every process that was not dequeued, in the order they were given.
C23_CycleAppendedInGivenOrder ==
    (last.op = "sort_processes" /\ ~Acyclic(sorted.processes)) =>
        LET n == Len(sorted.processes)
            result == sorted.result
            in_cycle == NotDequeued(sorted.processes)
            m == n - Cardinality(in_cycle)
        IN  /\ Len(result) = n
            /\ {result[k] : k \in 1..n} = 1..n
            /\ {result[k] : k \in 1..m} = (1..n) \ in_cycle
            /\ \A j, k \in (m + 1)..n : j < k => result[j] < result[k]
            /\ \A p1, p2 \in (1..n) \ in_cycle :
                  Feeds(sorted.processes, p1, p2)
                  => PositionOf(result, p1) < PositionOf(result, p2)

\* A set with a cycle was sorted in which a process of the cycle was given
\* before a process that is dequeued.
C23_Witness ==
    /\ last.op = "sort_processes"
    /\ ~Acyclic(sorted.processes)
    /\ \E p1, p2 \in 1..Len(sorted.processes) :
          /\ p1 < p2
          /\ p1 \in NotDequeued(sorted.processes)
          /\ p2 \notin NotDequeued(sorted.processes)


\* p2 is reached from p1 along producer/consumer pairs.
Reaches(processes_list, p1, p2) ==
    p2 \in Downstream(processes_list,
                      {q \in 1..Len(processes_list) : Feeds(processes_list, p1, q)},
                      Len(processes_list))

\* C24 as stated: sort_processes is stable: two processes with equal
\* in-degree, neither of which is downstream of the other, come out in the
\* order in which they were given.
C24_StableAmongEqualInDegree ==
    last.op = "sort_processes" =>
        \A p1, p2 \in 1..Len(sorted.processes) :
            (/\ p1 < p2
             /\ in_degree(sorted.processes)[p1] = in_degree(sorted.processes)[p2]
             /\ ~Reaches(sorted.processes, p1, p2)
             /\ ~Reaches(sorted.processes, p2, p1))
            => PositionOf(sorted.result, p1) < PositionOf(sorted.result, p2)

\* C24, amended: the processes that have no producer in the set come first,
\* in the order in which they were given.
C24_RootsFirstInGivenOrder ==
    last.op = "sort_processes" =>
        \A p1, p2 \in 1..Len(sorted.processes) :
            in_degree(sorted.processes)[p1] = 0 =>
                /\ (in_degree(sorted.processes)[p2] = 0 /\ p1 < p2)
                      => PositionOf(sorted.result, p1) < PositionOf(sorted.result, p2)
                /\ in_degree(sorted.processes)[p2] > 0
                      => PositionOf(sorted.result, p1) < PositionOf(sorted.result, p2)

\* Two processes without a producer were sorted, given after a consumer.
C24_Witness ==
    /\ last.op = "sort_processes"
    /\ \E p0, p1, p2 \in 1..Len(sorted.processes) :
          /\ p0 < p1 /\ p1 < p2
          /\ in_degree(sorted.processes)[p0] > 0
          /\ in_degree(sorted.processes)[p1] = 0
          /\ in_degree(sorted.processes)[p2] = 0


\* C25: the entry written by create_entry(data, process, input store, input
\* key) carries the calling process's uid as process_uid, the input key as
\* input_data_key and the input store's uid, or null when there is no input
\* store, as input_structure_uid.
C25_EntryCarriesProvenance ==
    [][(last'.op = "create_entry" /\ last'.outcome = "ok") =>
          \E r \in store'[last'.store] :
              /\ r \notin store[last'.store]
              /\ store'[last'.store] = store[last'.store] \cup {r}
              /\ r.entry_key = Text(last'.ret)
              /\ r.process_uid = Text(uid(last'.proc))
              /\ r.input_structure_uid = last'.args[1]
              /\ r.input_data_key = last'.args[2]]_vars

C25_Witness ==
    /\ last.op = "create_entry"
    /\ last.outcome = "ok"
    /\ \E s \in AppStores : \E r1, r2 \in store[s] :
          /\ r1.input_structure_uid = Null
          /\ r2.input_structure_uid = Text(uid(input(ProducerOf(s))))
          /\ r2.input_data_key = Text("k1")
          /\ r1.process_uid = Text(uid(ProducerOf(s)))


\* C27: fetch_process_by_uid and fetch_data_structure_by_uid return the
\* registered class with the uid asked for and nothing when no registered
\* class has it; fetch_installed_processes returns exactly the registered
\* processes whose uid is in the persisted ledger.
C27_FetchByUid ==
    /\ last.op = "fetch_process_by_uid"
       => /\ last.outcome = "ok"
          /\ last.ret = IF \E p \in process_registry : uid(p) = last.key
                        THEN last.key ELSE ""
    /\ last.op = "fetch_data_structure_by_uid"
       => /\ last.outcome = "ok"
          /\ last.ret = IF \E s \in detected_data_structures : s = last.key
                        THEN last.key ELSE ""
    /\ last.op = "fetch_installed_processes"
       => last.args[1] = {p \in process_registry : InSeq(installed_processes, p)}


\* C28: a key that create_entry has returned on a store is never returned
\* by a later create_entry on that store, also after its entry has been
\* deleted.
C28_KeyNeverReturnedAgain ==
    [][(last'.op \in {"create_entry", "execute"} /\ last'.outcome = "ok") =>
          last'.ret \notin {c.key : c \in created[last'.store]}]_vars

\* C28 (amended): the key create_entry returns is the key of no entry the
\* store holds at the time of the call, and no call fails because its key
\* is taken.
C28_KeyNotHeld ==
    [][/\ last'.op \in {"create_entry", "execute"}
          => last'.err # "IntegrityError: UNIQUE constraint failed"
       /\ (last'.op \in {"create_entry", "execute"} /\ last'.outcome = "ok")
          => /\ last'.ret \notin EntryKeys(last'.store)
             /\ Text(last'.ret) \in {r.entry_key : r \in store'[last'.store]}]_vars

\* An entry has been created on a store that has lost an entry, under the
\* key of the lost entry.
C28_Witness ==
    /\ last.op \in {"create_entry", "execute"}
    /\ last.outcome = "ok"
    /\ deleted(last.store) >= 1
    /\ rowseq[last.store] > Cardinality({c.key : c \in created[last.store]})


\* C29: in one run of the runner widget every selected process is started
\* exactly once and in list order, and every started process is in flight,
\* has one completion signal waiting, or has advanced the index by one: no
\* process is skipped, started twice or counted twice.
C29_EachProcessOnceInOrder ==
    (runner.open /\ runner.clicks = 1) =>
        /\ Len(runner.started) <= Len(runner.process_items)
        /\ \A k \in 1..Len(runner.started) : runner.started[k] = runner.process_items[k]
        /\ runner.index + Len(runner.finished) + Len(runner.threads) = Len(runner.started)


\* C30: when the completion of a process that was executed over its input
\* keys is handled, the entry key of every output entry the process has
\* created in the run is recorded under its output store in
\* data_structures_to_entry_keys.
C30_EveryOutputKeyRecorded ==
    [][(/\ runner.finished # <<>>
        /\ runner'.finished = Tail(runner.finished)
        /\ Head(runner.finished).payload = "data"
        /\ runner.clicks = 1
        /\ runner.current_process # 0)
       => LET p == runner.processes[runner.current_process]
              s == output(p)
          IN  \A r \in store[s] \ InitialRows(s) :
                 r.process_uid = Text(uid(p))
                 => /\ s \in DOMAIN runner'.entry_keys
                    /\ InSeq(runner'.entry_keys[s], r.entry_key.v)]_vars


C32_StartupRepeatable ==
    (last.op = "main" /\ last.key = "register_and_install") => last.outcome = "ok"


\* The position the run has taken up in this step, 0 when it has taken up
\* none.
TakenUp ==
    IF runner'.started # <<>>
       /\ \/ Len(runner'.started) = Len(runner.started) + 1
          \/ (runner'.clicks # runner.clicks /\ runner.checked # {})
    THEN runner'.started[Len(runner'.started)]
    ELSE 0

\* The run has reported a missing input, nothing else is in flight and
\* 'Process' will not be pressed again.
MissingInputReported ==
    /\ runner.report.line = "Process failed" /\ runner.report.msg = "missing"
    /\ runner.clicks = MaxRuns
    /\ runner.threads = <<>> /\ runner.finished = <<>> /\ runner.timers = 1
    /\ Len(runner.started) = runner.index

\* C33: a selected process for whose input store the run has no entry keys
\* is reported as failed with the missing-input message, no worker is
\* started for it and no execute is called, the index advances by one and a
\* _process_next is scheduled; the scheduled call is made, and it takes up
\* the next selected process or ends the run when there is none.
C33_MissingInputReportedAndRunProceeds ==
    /\ [][(TakenUp # 0 /\ input(runner.processes[TakenUp]) \notin DOMAIN runner.entry_keys)
          => /\ runner'.report = [process |-> runner.processes[TakenUp],
                                  line |-> "Process failed", msg |-> "missing"]
             /\ Len(runner'.threads) = Len(runner.threads)
             /\ last' = last
             /\ store' = store
             /\ runner'.index = Len(runner'.started)
             /\ runner'.timers >= 1]_vars
    /\ [][(MissingInputReported /\ runner' # runner /\ runner'.checked = runner.checked)
          => IF runner.index < Len(runner.process_items)
             THEN TakenUp = runner.process_items[runner.index + 1]
             ELSE runner'.current_process = 0 /\ runner'.timers = 0]_vars
    /\ MissingInputReported ~> ~MissingInputReported

\* A missing input has been reported for the first of two selected
\* processes and the second has been taken up.
C33_Witness ==
    /\ runner.clicks = MaxRuns
    /\ Len(runner.started) = 2
    /\ runner.started = runner.process_items
    /\ input(runner.processes[runner.started[1]]) \notin DOMAIN runner.entry_keys
    /\ runner.index >= 1

\* ------------------------------------------------------------------------
\* C35: for every set of processes, with or without cycles, the list that
\* sort_processes returns is a permutation of the input: it has the length
\* of the input and every process of the input is at exactly one position.
C35_ResultIsPermutation ==
    last.op = "sort_processes" =>
        LET n == Len(sorted.processes)
        IN  /\ Len(sorted.result) = n
            /\ \A p \in 1..n :
                  Cardinality({k \in 1..Len(sorted.result) : sorted.result[k] = p}) = 1
            /\ \A k \in 1..Len(sorted.result) : sorted.result[k] \in 1..n

\* A set in which one process is dequeued and reordered while others stay
\* in a cycle was sorted.
C35_Witness ==
    /\ last.op = "sort_processes"
    /\ Len(sorted.processes) = MaxSortLen
    /\ NotDequeued(sorted.processes) # {}
    /\ NotDequeued(sorted.processes) # 1..Len(sorted.processes)
    /\ sorted.result # IndexSeq(Len(sorted.processes))

\* ------------------------------------------------------------------------
\* C36: sort_processes terminates on every set of processes, including sets
\* with a cycle and sets with a process that reads the store it writes: no
\* process is appended to the queue more than once, the loop makes at most
\* one pass per process, and the call returns.
C36_SortTerminates ==
    /\ [](\A p \in 1..Len(sorted.processes) :
             Cardinality({k \in 1..Len(sorted.enqueued) : sorted.enqueued[k] = p}) <= 1)
    /\ [](~sorted.returned => Len(sorted.result) + Len(sorted.queue) <= Len(sorted.processes))
    /\ <>(sorted.returned /\ sorted.result = sort_processes(sorted.processes))

\* A call returned for a set that holds a process reading the store it
\* writes, a cycle, and a process that went through the queue.
C36_Witness ==
    /\ sorted.returned
    /\ \E p \in 1..Len(sorted.processes) :
          sorted.processes[p].input = sorted.processes[p].output
    /\ NotDequeued(sorted.processes) # {}
    /\ sorted.enqueued # <<>>

TagsOfEntry(rows, entry) == entry_keys_to_tags(fetch_all(rows))[entry.entry_key]

\* C38: when fetch_results is given the entry filters that
\* generate_entry_filters_by_tags produced for tag whitelist W and blacklist
\* B, every returned entry carries all tags of W and none of B; when W is
\* not empty and no entry carries all of its tags, nothing is returned.
C38_ReturnedEntriesMatchTags ==
    last.op = "fetch_results" =>
        \A k \in 1..Len(last.ret) :
            /\ last.args[1] \subseteq TagsOfEntry(store[Files], last.ret[k])
            /\ last.args[2] \cap TagsOfEntry(store[Files], last.ret[k]) = {}

====
